---- MODULE Spec2Model ----
(***************************************************************************)
(* Model of the expresto core: the lifecycle HookManager                   *)
(* (src/lib/hooks.ts), the RouteRegistry (src/lib/routing/route-registry.ts),*)
(* the SchedulerService (src/lib/scheduler/scheduler-service.ts) with its   *)
(* STARTUP subscriber (src/hooks/scheduler.startup.ts), the ServiceRegistry *)
(* (src/lib/services/service-registry.ts) and the SecurityProvider          *)
(* (src/lib/security/security-provider.ts).                                 *)
(* Strings whose content matters (paths, methods, secure modes) are         *)
(* sequences of one-character strings, so that normalisation, lower-casing  *)
(* and collation are computed and not assumed.                              *)
(***************************************************************************)
EXTENDS Integers, Sequences, FiniteSets, TLC

VARIABLES
  arrays,     \* RouteRegistry: the array objects of the heap, by reference
  callerRef,  \* RouteRegistry: the array a caller holds from getRoutes(), or NoRef
  ret,        \* RouteRegistry: the last operation and the value it returned
  listeners,  \* HookManager.listeners: phase -> callbacks in registration order
  emit,       \* HookManager.emit: the emit call in progress
  leaderCheck,\* SchedulerService.leaderCheck: "none", "sync" or "async"
  objs,       \* SchedulerService: the Scheduled objects created by register
  tasks,      \* SchedulerService.tasks: name -> Scheduled object (0: absent)
  fires,      \* SchedulerService: the trigger callbacks in progress
  schedRet,   \* SchedulerService: the last callback step or call and how it ended
  services,   \* ServiceRegistry.services: the Map, entries in insertion order
  shut,       \* ServiceRegistry.shutdownAll: the call in progress
  svcRet,     \* ServiceRegistry: the last register/set/delete call and its outcome
  config,     \* ctx.config: the scheduler section and cluster.enabled
  startup,    \* scheduler.startup.ts: the STARTUP subscriber's progress
  initp,      \* SchedulerService.init: the call in progress
  sec,        \* SecurityProvider: the provider as its constructor leaves it
  req,        \* SecurityProvider: the request passing the gate
  loader,     \* ControllerLoader: load in progress, what it mounted and registered
  proc,       \* bootstrap: the process, its shutdown calls and its exit
  create      \* bootstrap: the createServer call in progress

routeVars == <<arrays, callerRef, ret>>
hookVars == <<listeners, emit>>
schedVars == <<leaderCheck, objs, tasks, fires, schedRet>>
svcVars == <<services, shut, svcRet>>
bootVars == <<config, startup, initp>>
secVars == <<sec, req>>
loadVars == <<loader>>
procVars == <<proc, create>>
vars == <<arrays, callerRef, ret, listeners, emit, leaderCheck, objs, tasks, fires, schedRet,
          services, shut, svcRet, config, startup, initp, sec, req, loader, proc, create>>

(***************************************************************************)
(* Bounds                                                                  *)
(***************************************************************************)
MaxRoutes == 3
MaxRegs == 3
MaxObjs == 2
MaxFires == 2
MaxWrites == 1

(***************************************************************************)
(* Strings as sequences of characters                                      *)
(***************************************************************************)
UpperChars == <<"A", "B", "C", "D", "E", "F", "G", "H", "I", "J", "K", "L", "M",
                "N", "O", "P", "Q", "R", "S", "T", "U", "V", "W", "X", "Y", "Z">>
LowerChars == <<"a", "b", "c", "d", "e", "f", "g", "h", "i", "j", "k", "l", "m",
                "n", "o", "p", "q", "r", "s", "t", "u", "v", "w", "x", "y", "z">>
\* punctuation in the order of the root collation
PunctChars == <<":", ".", "*", "/">>

IndexIn(c, chars) == IF \E i \in DOMAIN chars : chars[i] = c
                     THEN CHOOSE i \in DOMAIN chars : chars[i] = c
                     ELSE 0

IsUpper(c) == IndexIn(c, UpperChars) # 0

\* String.prototype.toLowerCase
ToLowerCase(s) == [i \in DOMAIN s |->
                     IF IsUpper(s[i]) THEN LowerChars[IndexIn(s[i], UpperChars)] ELSE s[i]]

\* primary collation weight of a character: punctuation before letters,
\* letters in alphabetical order whatever their case
PrimaryWeight(c) ==
  IF IndexIn(c, PunctChars) # 0 THEN IndexIn(c, PunctChars)
  ELSE IF IndexIn(c, LowerChars) # 0 THEN 10 + IndexIn(c, LowerChars)
  ELSE IF IndexIn(c, UpperChars) # 0 THEN 10 + IndexIn(c, UpperChars)
  ELSE 0

Min(a, b) == IF a < b THEN a ELSE b

\* String.prototype.localeCompare: primary weights decide first, case breaks
\* ties with the lower-case letter first
LocaleCompare(a, b) ==
  LET n == Min(Len(a), Len(b))
      pdiff == {i \in 1..n : PrimaryWeight(a[i]) # PrimaryWeight(b[i])}
      tdiff == {i \in 1..n : a[i] # b[i]}
      first(S) == CHOOSE i \in S : \A j \in S : i <= j
  IN IF pdiff # {}
     THEN IF PrimaryWeight(a[first(pdiff)]) < PrimaryWeight(b[first(pdiff)]) THEN -1 ELSE 1
     ELSE IF Len(a) # Len(b)
     THEN IF Len(a) < Len(b) THEN -1 ELSE 1
     ELSE IF tdiff # {}
     THEN IF IsUpper(b[first(tdiff)]) THEN -1 ELSE 1
     ELSE 0

(***************************************************************************)
(* path.posix.normalize                                                    *)
(***************************************************************************)
RECURSIVE Segments(_, _)
Segments(s, cur) ==
  IF s = <<>> THEN <<cur>>
  ELSE IF Head(s) = "/" THEN <<cur>> \o Segments(Tail(s), <<>>)
  ELSE Segments(Tail(s), Append(cur, Head(s)))

RECURSIVE NormalizeString(_, _, _)
NormalizeString(segs, allowAboveRoot, res) ==
  IF segs = <<>> THEN res
  ELSE LET seg == Head(segs)
           rest == Tail(segs)
       IN IF seg = <<>> \/ seg = <<".">>
          THEN NormalizeString(rest, allowAboveRoot, res)
          ELSE IF seg = <<".", ".">>
          THEN IF res # <<>> /\ res[Len(res)] # <<".", ".">>
               THEN NormalizeString(rest, allowAboveRoot, SubSeq(res, 1, Len(res) - 1))
               ELSE IF allowAboveRoot
               THEN NormalizeString(rest, allowAboveRoot, Append(res, seg))
               ELSE NormalizeString(rest, allowAboveRoot, res)
          ELSE NormalizeString(rest, allowAboveRoot, Append(res, seg))

RECURSIVE JoinSegs(_)
JoinSegs(segs) ==
  IF segs = <<>> THEN <<>>
  ELSE IF Len(segs) = 1 THEN Head(segs)
  ELSE Head(segs) \o <<"/">> \o JoinSegs(Tail(segs))

PosixNormalize(p) ==
  IF p = <<>> THEN <<".">>
  ELSE LET isAbsolute == p[1] = "/"
           trailingSeparator == p[Len(p)] = "/"
           body == JoinSegs(NormalizeString(Segments(p, <<>>), ~isAbsolute, <<>>))
       IN IF body = <<>>
          THEN IF isAbsolute THEN <<"/">>
               ELSE IF trailingSeparator THEN <<".", "/">> ELSE <<".">>
          ELSE LET withSep == IF trailingSeparator THEN body \o <<"/">> ELSE body
               IN IF isAbsolute THEN <<"/">> \o withSep ELSE withSep

(***************************************************************************)
(* RouteRegistry                                                           *)
(***************************************************************************)
mGet == <<"g", "e", "t">>
mGET == <<"G", "E", "T">>
mPost == <<"p", "o", "s", "t">>
sNone == <<"n", "o", "n", "e">>
sBasic == <<"b", "a", "s", "i", "c">>
sJwt == <<"j", "w", "t">>
pApiTest == <<"/", "a", "p", "i", "/", "t", "e", "s", "t">>
pApiTestSlash == <<"/", "a", "p", "i", "/", "t", "e", "s", "t", "/">>
pApiTestUpper == <<"/", "A", "P", "I", "/", "T", "E", "S", "T">>
pDot == <<".">>
pRoot == <<"/">>
pHacked == <<"/", "h", "a", "c", "k", "e", "d">>
pUsersId == <<"/", "u", "s", "e", "r", "s", "/", ":", "i", "d">>
pUsersUserId == <<"/", "u", "s", "e", "r", "s", "/", ":", "u", "s", "e", "r", "I", "d">>

Route(m, p, s, src) == [method |-> m, path |-> p, secure |-> s, source |-> src]

\* the entries handed to register
InputRoutes == {
  Route(mGet, pApiTest, sNone, "a.ts"),
  Route(mGet, pApiTest, sBasic, "b.ts"),
  Route(mGET, pApiTestUpper, sJwt, "b.ts"),
  Route(mPost, pApiTest, sJwt, "b.ts"),
  Route(mGet, pApiTestSlash, sJwt, "a.ts"),
  Route(mGet, pDot, sNone, "a.ts"),
  Route(mGet, pUsersId, sJwt, "user.ts"),
  Route(mGet, pUsersUserId, sJwt, "other.ts") }

\* the entries registered where a caller holds the result of getRoutes()
CopyInputs == {
  Route(mGet, pApiTest, sNone, "a.ts"),
  Route(mPost, pApiTest, sJwt, "b.ts") }

\* what a caller pushes on the array it got from getRoutes()
EvilRoute == Route(mPost, pHacked, sNone, "evil.ts")

NoRef == 0 - 1
RoutesRef == 0     \* this.routes
CopyRef == 1       \* the array allocated by getRoutes()
Refs == {RoutesRef, CopyRef}

Routes == arrays[RoutesRef]

\* the record built by register before the push
NormEntry(entry) ==
  [method |-> ToLowerCase(entry.method),
   path |-> PosixNormalize(entry.path),
   secure |-> entry.secure,
   source |-> entry.source]

\* getRoutes(): [...this.routes] allocates a new array
GetRoutes_alias(store) == [ref |-> RoutesRef, store |-> store]

GetRoutes(store) == [ref |-> CopyRef, store |-> [store EXCEPT ![CopyRef] = store[RoutesRef]]]

\* the comparator of getSorted
RouteCompare_pathFirst(a, b) ==
  IF a.path # b.path THEN LocaleCompare(a.path, b.path)
  ELSE IF a.method # b.method THEN LocaleCompare(a.method, b.method)
  ELSE LocaleCompare(a.secure, b.secure)

RouteCompare(a, b) ==
  IF a.method # b.method THEN LocaleCompare(a.method, b.method)
  ELSE IF a.path # b.path THEN LocaleCompare(a.path, b.path)
  ELSE LocaleCompare(a.secure, b.secure)

\* Array.prototype.sort is stable: an element goes behind its equals
RECURSIVE InsertSorted(_, _)
InsertSorted(x, s) ==
  IF s = <<>> THEN <<x>>
  ELSE IF RouteCompare(Head(s), x) <= 0 THEN <<Head(s)>> \o InsertSorted(x, Tail(s))
  ELSE <<x>> \o s

RECURSIVE ArraySort(_)
ArraySort(s) ==
  IF s = <<>> THEN <<>>
  ELSE InsertSorted(s[Len(s)], ArraySort(SubSeq(s, 1, Len(s) - 1)))

\* getSorted(): [...this.routes].sort(cmp) sorts a new array, which the
\* registry does not keep
GetSorted(store) == [val |-> ArraySort(store[RoutesRef]), store |-> store]

\* the Map key `${r.method} ${r.path}`
ConflictKey_pathOnly(r) == r.path

ConflictKey(r) == r.method \o <<" ">> \o r.path

\* the first loop of detectConflicts: a Map keeps its keys in insertion order
RECURSIVE SeenMap(_, _)
SeenMap(rs, seen) ==
  IF rs = <<>> THEN seen
  ELSE LET r == Head(rs)
           key == ConflictKey(r)
       IN IF \E i \in DOMAIN seen : seen[i].key = key
          THEN SeenMap(Tail(rs),
                 [i \in DOMAIN seen |->
                    IF seen[i].key = key
                    THEN [key |-> key, list |-> Append(seen[i].list, r)]
                    ELSE seen[i]])
          ELSE SeenMap(Tail(rs), Append(seen, [key |-> key, list |-> <<r>>]))

\* the message `Route conflict for [${key}] in: ${sources}`
ConflictMsg(key, list) ==
  [key |-> key,
   sources |-> [i \in DOMAIN list |-> [source |-> list[i].source, secure |-> list[i].secure]]]

RECURSIVE ConflictMsgs(_)
ConflictMsgs(seen) ==
  IF seen = <<>> THEN <<>>
  ELSE IF Len(Head(seen).list) > 1
  THEN <<ConflictMsg(Head(seen).key, Head(seen).list)>> \o ConflictMsgs(Tail(seen))
  ELSE ConflictMsgs(Tail(seen))

DetectConflicts(rs) == ConflictMsgs(SeenMap(rs, <<>>))

NoRet == [op |-> "none", val |-> <<>>]

RouteInit ==
  /\ arrays = [r \in Refs |-> <<>>]
  /\ callerRef = NoRef
  /\ ret = NoRet

\* register(entry)
RegisterRoute(entry) ==
  /\ Len(Routes) < MaxRoutes
  /\ arrays' = [arrays EXCEPT ![RoutesRef] = Append(@, NormEntry(entry))]
  /\ ret' = [op |-> "register", val |-> <<>>]
  /\ UNCHANGED callerRef

\* getRoutes(), the caller keeps the returned array
GetRoutesCall ==
  /\ arrays' = GetRoutes(arrays).store
  /\ callerRef' = GetRoutes(arrays).ref
  /\ ret' = [op |-> "getRoutes", val |-> <<>>]

\* getSorted()
GetSortedCall ==
  /\ arrays' = GetSorted(arrays).store
  /\ ret' = [op |-> "getSorted", val |-> GetSorted(arrays).val]
  /\ UNCHANGED callerRef

\* detectConflicts()
DetectConflictsCall ==
  /\ ret' = [op |-> "detectConflicts", val |-> DetectConflicts(Routes)]
  /\ UNCHANGED <<arrays, callerRef>>

\* the caller changes the array it holds: push, pop, reverse
CallerPush ==
  /\ callerRef # NoRef
  /\ Len(arrays[callerRef]) <= MaxRoutes
  /\ arrays' = [arrays EXCEPT ![callerRef] = Append(@, EvilRoute)]
  /\ ret' = [op |-> "callerMutate", val |-> <<>>]
  /\ UNCHANGED callerRef

CallerPop ==
  /\ callerRef # NoRef
  /\ arrays[callerRef] # <<>>
  /\ arrays' = [arrays EXCEPT ![callerRef] = SubSeq(@, 1, Len(@) - 1)]
  /\ ret' = [op |-> "callerMutate", val |-> <<>>]
  /\ UNCHANGED callerRef

CallerReverse ==
  /\ callerRef # NoRef
  /\ Len(arrays[callerRef]) > 1
  /\ arrays' = [arrays EXCEPT ![callerRef] =
                  [i \in DOMAIN @ |-> @[Len(@) + 1 - i]]]
  /\ ret' = [op |-> "callerMutate", val |-> <<>>]
  /\ UNCHANGED callerRef

RouteNext ==
  \/ \E entry \in InputRoutes : RegisterRoute(entry)
  \/ GetSortedCall
  \/ DetectConflictsCall

CopyNext ==
  \/ \E entry \in CopyInputs : RegisterRoute(entry)
  \/ GetRoutesCall
  \/ GetSortedCall
  \/ DetectConflictsCall
  \/ CallerPush
  \/ CallerPop
  \/ CallerReverse

(***************************************************************************)
(* HookManager                                                             *)
(***************************************************************************)
INITIALIZE == "initialize"
STARTUP == "startup"
PRE_INIT == "preInit"
CUSTOM_MIDDLEWARE == "customMiddleware"
POST_INIT == "postInit"
SHUTDOWN == "shutdown"
SECURITY == "security"
LifecycleHook == {INITIALIZE, STARTUP, PRE_INIT, CUSTOM_MIDDLEWARE, POST_INIT, SHUTDOWN, SECURITY}

\* the callbacks handed to register/on; the error a callback throws carries its name
HookCallbacks == {"cbA", "cbB"}
NoErr == "none"

IdleEmit == [st |-> "idle", hook |-> INITIALIZE, idx |-> 0, invoked |-> <<>>,
             active |-> {}, thrown |-> {}, err |-> NoErr]

SumLen(f) ==
  LET RECURSIVE Sum(_)
      Sum(S) == IF S = {} THEN 0
                ELSE LET h == CHOOSE h \in S : TRUE IN Len(f[h]) + Sum(S \ {h})
  IN Sum(DOMAIN f)

HookInit ==
  /\ listeners = [h \in LifecycleHook |-> <<>>]
  /\ emit = IdleEmit

\* register(hook, callback) and its alias on(hook, callback)
HookRegister(hook, callback) ==
  /\ SumLen(listeners) < MaxRegs
  /\ listeners' = [listeners EXCEPT ![hook] = Append(@, callback)]
  /\ UNCHANGED emit

\* emit(hook, context): the call, up to the loop
EmitCall(hook) ==
  /\ emit.st \in {"idle", "resolved", "rejected"}
  /\ emit' = [IdleEmit EXCEPT !.st = "loop", !.hook = hook]
  /\ UNCHANGED listeners

\* `await fn(context)`: the callback at position pos is started; the loop
\* goes on only when it has settled
EmitAwait_noAwait(e, pos) ==
  [e EXCEPT !.st = "loop", !.idx = pos,
            !.invoked = Append(@, pos), !.active = @ \cup {pos}]

EmitAwait(e, pos) ==
  [e EXCEPT !.st = "await", !.idx = pos,
            !.invoked = Append(@, pos), !.active = @ \cup {pos}]

\* one turn of `for (const fn of listeners)`: the array iterator reads the
\* live array, so callbacks registered during the emit are reached
EmitLoop ==
  /\ emit.st = "loop"
  /\ IF emit.idx < Len(listeners[emit.hook])
     THEN emit' = EmitAwait(emit, emit.idx + 1)
     ELSE emit' = [emit EXCEPT !.st = "resolved"]
  /\ UNCHANGED listeners

\* the callback at position pos returns (its promise fulfils)
CallbackReturn(pos) ==
  /\ pos \in emit.active
  /\ emit' = [emit EXCEPT !.active = @ \ {pos},
                          !.st = IF @ = "await" THEN "loop" ELSE @]
  /\ UNCHANGED listeners

\* the catch block of emit
EmitCatch_swallow(e, err) == [e EXCEPT !.st = "loop"]

EmitCatch_rethrow(e, err) == [e EXCEPT !.st = "rejected", !.err = err]

EmitCatch(e, err) ==
  IF e.hook # CUSTOM_MIDDLEWARE
  THEN [e EXCEPT !.st = "rejected", !.err = err]
  ELSE [e EXCEPT !.st = "loop"]

\* the callback at position pos throws (its promise rejects)
CallbackThrow(pos) ==
  /\ pos \in emit.active
  /\ LET settled == [emit EXCEPT !.active = @ \ {pos}, !.thrown = @ \cup {pos}]
     IN emit' = IF emit.st = "await"
                THEN EmitCatch(settled, <<listeners[emit.hook][pos], pos>>)
                ELSE settled
  /\ UNCHANGED listeners

HookNext ==
  \/ \E hook \in LifecycleHook, callback \in HookCallbacks : HookRegister(hook, callback)
  \/ \E hook \in LifecycleHook : EmitCall(hook)
  \/ EmitLoop
  \/ \E pos \in 1..MaxRegs + 1 : CallbackReturn(pos)
  \/ \E pos \in 1..MaxRegs + 1 : CallbackThrow(pos)

(***************************************************************************)
(* SchedulerService                                                        *)
(***************************************************************************)
JobNames == {"cleanup", "heartbeat"}
LeaderCheckKinds == {"none", "sync", "async"}
IdleFire == [pc |-> "idle", obj |-> 0]
SchedRet(op, o, out) == [op |-> op, obj |-> o, out |-> out]
NoSchedRet == SchedRet("none", 0, "none")

\* new SchedulerService(cfg, ctx, opts)
SchedNew(kind) ==
  /\ leaderCheck = kind
  /\ objs = <<>>
  /\ tasks = [n \in JobNames |-> 0]
  /\ fires = [f \in 1..MaxFires |-> IdleFire]
  /\ schedRet = NoSchedRet

\* register(name, cfg, mod): a new Scheduled object, its cron task started
SchedRegister(name, leaderOnly) ==
  /\ tasks[name] = 0
  /\ Len(objs) < MaxObjs
  /\ objs' = Append(objs, [name |-> name, leaderOnly |-> leaderOnly,
                           running |-> FALSE, started |-> TRUE,
                           kind |-> "cron", cancelled |-> FALSE, runs |-> 0])
  /\ tasks' = [tasks EXCEPT ![name] = Len(objs) + 1]
  /\ schedRet' = SchedRet("register", Len(objs) + 1, "ok")
  /\ UNCHANGED <<leaderCheck, fires>>

\* the trigger callback from `scheduled.running = true` up to `await mod.run`
StartRun(f, o) ==
  /\ objs' = [objs EXCEPT ![o].running = TRUE]
  /\ fires' = [fires EXCEPT ![f] = [pc |-> "run", obj |-> o]]

\* `if (cfg.leaderOnly && this.leaderCheck)`
LeaderGate_anyJob(o) == leaderCheck # "none"

LeaderGate(o) == objs[o].leaderOnly /\ leaderCheck # "none"

\* a cron tick of a started task: the trigger callback up to its first
\* suspension. A leader check that answers at once is settled within the tick,
\* one that answers later leaves the callback suspended at the await.
Tick(f, o) ==
  /\ fires[f].pc = "idle"
  /\ o \in DOMAIN objs
  /\ objs[o].kind = "cron"
  /\ objs[o].started
  /\ IF objs[o].running
     THEN /\ schedRet' = SchedRet("tick", o, "skipRunning")
          /\ UNCHANGED <<objs, fires>>
     ELSE IF LeaderGate(o)
     THEN IF leaderCheck = "async"
          THEN /\ fires' = [fires EXCEPT ![f] = [pc |-> "leader", obj |-> o]]
               /\ schedRet' = SchedRet("tick", o, "leader")
               /\ UNCHANGED objs
          ELSE \E ok \in BOOLEAN :
                 IF ok THEN StartRun(f, o) /\ schedRet' = SchedRet("tick", o, "run")
                       ELSE /\ schedRet' = SchedRet("tick", o, "skipNotLeader")
                            /\ UNCHANGED <<objs, fires>>
     ELSE StartRun(f, o) /\ schedRet' = SchedRet("tick", o, "run")
  /\ UNCHANGED <<leaderCheck, tasks>>

\* the promise of an asynchronous leader check settles
LeaderAnswer(f, ok) ==
  /\ fires[f].pc = "leader"
  /\ IF ok
     THEN StartRun(f, fires[f].obj) /\ schedRet' = SchedRet("leaderAnswer", fires[f].obj, "run")
     ELSE /\ fires' = [fires EXCEPT ![f] = IdleFire]
          /\ schedRet' = SchedRet("leaderAnswer", fires[f].obj, "skipNotLeader")
          /\ UNCHANGED objs
  /\ UNCHANGED <<leaderCheck, tasks>>

\* `finally { scheduled.running = false }`
RunFinally_keep(scheduled) == scheduled

RunFinally(scheduled) == [scheduled EXCEPT !.running = FALSE]

\* mod.run returns or throws: the catch block logs the error, the finally
\* block resets the guard and the callback's promise fulfils
RunEnd(f, threw) ==
  /\ fires[f].pc = "run"
  /\ objs' = [objs EXCEPT ![fires[f].obj] = RunFinally(@)]
  /\ fires' = [fires EXCEPT ![f] = IdleFire]
  /\ schedRet' = SchedRet("runEnd", fires[f].obj, IF threw THEN "error" ELSE "done")
  /\ UNCHANGED <<leaderCheck, tasks>>

\* `s.task.stop(); s.task.destroy?.()`
StopTask_keepFiring(scheduled) == scheduled

StopTask(scheduled) == [scheduled EXCEPT !.started = FALSE]

\* cancel(name)
SchedCancel(name) ==
  /\ IF tasks[name] = 0
     THEN /\ schedRet' = SchedRet("cancel", 0, "unknown")
          /\ UNCHANGED <<objs, tasks>>
     ELSE /\ objs' = [objs EXCEPT ![tasks[name]] = StopTask(@)]
          /\ tasks' = [tasks EXCEPT ![name] = 0]
          /\ schedRet' = SchedRet("cancel", tasks[name], "cancelled")
  /\ UNCHANGED <<leaderCheck, fires>>

\* cancelAll(): cancel(name) for every key of the table. Deleting the key
\* under the iterator does not make Map.keys() skip another key, so the loop
\* reaches every entry, each one stopped as cancel stops it.
CancelAllObjs(os, ts) ==
  [o \in DOMAIN os |-> IF \E n \in JobNames : ts[n] = o THEN StopTask(os[o]) ELSE os[o]]

SchedCancelAll ==
  /\ objs' = CancelAllObjs(objs, tasks)
  /\ tasks' = [n \in JobNames |-> 0]
  /\ schedRet' = SchedRet("cancelAll", 0, "ok")
  /\ UNCHANGED <<leaderCheck, fires>>

\* scheduleTimeout(name, fn, ms): throws for a name the table has, else arms a
\* timer and stores a task-like entry whose stop and destroy clear that timer.
\* `started` of a one-shot object says that its timer is pending, `runs`
\* counts the calls of fn.
ScheduleTimeout(name) ==
  /\ Len(objs) < MaxObjs
  /\ IF tasks[name] # 0
     THEN /\ schedRet' = SchedRet("scheduleTimeout", 0, "throws")
          /\ UNCHANGED <<objs, tasks>>
     ELSE /\ objs' = Append(objs, [name |-> name, leaderOnly |-> FALSE,
                                   running |-> FALSE, started |-> TRUE,
                                   kind |-> "timeout", cancelled |-> FALSE, runs |-> 0])
          /\ tasks' = [tasks EXCEPT ![name] = Len(objs) + 1]
          /\ schedRet' = SchedRet("scheduleTimeout", Len(objs) + 1, "ok")
  /\ UNCHANGED <<leaderCheck, fires>>

\* the function scheduleTimeout returns: `cancelled = true; clearTimeout(timer)`;
\* the table keeps the entry
TimeoutDispose(o) ==
  /\ o \in DOMAIN objs
  /\ objs[o].kind = "timeout"
  /\ ~objs[o].cancelled
  /\ objs' = [objs EXCEPT ![o].cancelled = TRUE, ![o].started = FALSE]
  /\ schedRet' = SchedRet("dispose", o, "ok")
  /\ UNCHANGED <<leaderCheck, tasks, fires>>

\* the timer of a one-shot object expires: the callback up to `await fn()`
TimerFires(f, o) ==
  /\ fires[f].pc = "idle"
  /\ o \in DOMAIN objs
  /\ objs[o].kind = "timeout"
  /\ objs[o].started
  /\ IF objs[o].cancelled
     THEN /\ objs' = [objs EXCEPT ![o].started = FALSE]
          /\ schedRet' = SchedRet("timerFires", o, "cancelled")
          /\ UNCHANGED fires
     ELSE /\ objs' = [objs EXCEPT ![o].started = FALSE, ![o].runs = @ + 1]
          /\ fires' = [fires EXCEPT ![f] = [pc |-> "fn", obj |-> o]]
          /\ schedRet' = SchedRet("timerFires", o, "run")
  /\ UNCHANGED <<leaderCheck, tasks>>

\* fn returns or throws: the catch block logs the error, and
\* `finally { this.tasks.delete(name) }` removes whatever entry the name has
TimerFnEnd(f, threw) ==
  /\ fires[f].pc = "fn"
  /\ tasks' = [tasks EXCEPT ![objs[fires[f].obj].name] = 0]
  /\ fires' = [fires EXCEPT ![f] = IdleFire]
  /\ schedRet' = SchedRet("timerEnd", fires[f].obj, IF threw THEN "error" ELSE "done")
  /\ UNCHANGED <<leaderCheck, objs>>

\* the cron jobs together with the one-shot timers and cancelAll
TimerNext ==
  \/ \E name \in JobNames : ScheduleTimeout(name)
  \/ \E o \in 1..MaxObjs : TimeoutDispose(o)
  \/ \E f \in 1..MaxFires, o \in 1..MaxObjs : TimerFires(f, o)
  \/ \E f \in 1..MaxFires, threw \in BOOLEAN : TimerFnEnd(f, threw)
  \/ SchedCancelAll
  \/ \E name \in JobNames, leaderOnly \in BOOLEAN : SchedRegister(name, leaderOnly)
  \/ \E f \in 1..MaxFires, o \in 1..MaxObjs : Tick(f, o)
  \/ \E f \in 1..MaxFires, ok \in BOOLEAN : LeaderAnswer(f, ok)
  \/ \E f \in 1..MaxFires, threw \in BOOLEAN : RunEnd(f, threw)
  \/ \E name \in JobNames : SchedCancel(name)

SchedNext ==
  \/ \E name \in JobNames, leaderOnly \in BOOLEAN : SchedRegister(name, leaderOnly)
  \/ \E f \in 1..MaxFires, o \in 1..MaxObjs : Tick(f, o)
  \/ \E f \in 1..MaxFires, ok \in BOOLEAN : LeaderAnswer(f, ok)
  \/ \E f \in 1..MaxFires, threw \in BOOLEAN : RunEnd(f, threw)
  \/ \E name \in JobNames : SchedCancel(name)

(***************************************************************************)
(* ServiceRegistry                                                         *)
(***************************************************************************)
ServiceNames == {"db", "cache"}

\* service instances: which teardown methods the object has
Instance(id, hasShutdown, hasClose) == [id |-> id, shutdown |-> hasShutdown, close |-> hasClose]
ServiceInstances == {
  Instance("pool", TRUE, FALSE),
  Instance("client", FALSE, TRUE),
  Instance("both", TRUE, TRUE),
  Instance("plain", FALSE, FALSE) }

IdleShut == [pc |-> "idle", idx |-> 0, calls |-> <<>>, writes |-> 0]
ShutdownAllRet == [op |-> "shutdownAll", err |-> "none"]
NoSvcRet == [op |-> "none", err |-> "none"]

ServiceInit ==
  /\ services = <<>>
  /\ shut = IdleShut
  /\ svcRet = NoSvcRet

\* Map.has / Map.get / Array.from(Map.keys())
SvcHas(svcs, name) == \E i \in DOMAIN svcs : svcs[i].name = name
SvcPos(svcs, name) == CHOOSE i \in DOMAIN svcs : svcs[i].name = name
SvcGet(svcs, name) == svcs[SvcPos(svcs, name)].inst
SvcList(svcs) == [i \in DOMAIN svcs |-> svcs[i].name]

\* Map.set: an existing key keeps its place, a new key goes last
MapSet(svcs, name, inst) ==
  IF SvcHas(svcs, name)
  THEN [svcs EXCEPT ![SvcPos(svcs, name)].inst = inst]
  ELSE Append(svcs, [name |-> name, inst |-> inst])

\* Map.delete
MapDelete(svcs, name) ==
  IF SvcHas(svcs, name)
  THEN LET p == SvcPos(svcs, name)
       IN SubSeq(svcs, 1, p - 1) \o SubSeq(svcs, p + 1, Len(svcs))
  ELSE svcs

\* a write to the Map while shutdownAll is iterating it: the iterator keeps
\* its place among the entries that remain
WriteAllowed == shut.pc \in {"loop", "await"} => shut.writes < MaxWrites

ShutAfterWrite(svcs, name, deleted) ==
  IF shut.pc \in {"loop", "await"}
  THEN [shut EXCEPT !.writes = @ + 1,
                    !.idx = IF deleted /\ SvcHas(svcs, name) /\ SvcPos(svcs, name) <= @
                            THEN @ - 1 ELSE @]
  ELSE shut

\* register(name, instance): the outcome and the table it leaves
RegisterOutcome_overwrite(svcs, name, inst) ==
  [err |-> "none", svcs |-> MapSet(svcs, name, inst)]

RegisterOutcome(svcs, name, inst) ==
  IF SvcHas(svcs, name)
  THEN [err |-> "already registered", svcs |-> svcs]
  ELSE [err |-> "none", svcs |-> MapSet(svcs, name, inst)]

SvcRegister(name, inst) ==
  /\ SvcHas(services, name) \/ WriteAllowed
  /\ services' = RegisterOutcome(services, name, inst).svcs
  /\ svcRet' = [op |-> "register", err |-> RegisterOutcome(services, name, inst).err]
  /\ shut' = IF services' = services THEN shut ELSE ShutAfterWrite(services, name, FALSE)

\* set(name, instance); the warning for an instance without teardown is only logged
SvcSet(name, inst) ==
  /\ WriteAllowed
  /\ services' = MapSet(services, name, inst)
  /\ svcRet' = [op |-> "set", err |-> "none"]
  /\ shut' = ShutAfterWrite(services, name, FALSE)

\* remove(name) / delete(name)
SvcDelete(name) ==
  /\ SvcHas(services, name)
  /\ WriteAllowed
  /\ services' = MapDelete(services, name)
  /\ svcRet' = [op |-> "delete", err |-> "none"]
  /\ shut' = ShutAfterWrite(services, name, TRUE)

\* shutdownAll(): the call, up to the loop
ShutdownAllCall ==
  /\ shut.pc \in {"idle", "done"}
  /\ shut' = [IdleShut EXCEPT !.pc = "loop"]
  /\ svcRet' = ShutdownAllRet
  /\ UNCHANGED services

\* which teardown shutdownAll picks for a service
TeardownMethod_closeFirst(inst) ==
  IF inst.close THEN "close" ELSE IF inst.shutdown THEN "shutdown" ELSE "warn"

TeardownMethod(inst) ==
  IF inst.shutdown THEN "shutdown" ELSE IF inst.close THEN "close" ELSE "warn"

\* the end of shutdownAll: this.services.clear()
ShutdownClear_keep(svcs) == svcs

ShutdownClear(svcs) == <<>>

\* one turn of `for (const [name, service] of this.services.entries())`, up
\* to the await of the teardown; after the last entry the table is cleared
ShutdownLoop ==
  /\ shut.pc = "loop"
  /\ IF shut.idx < Len(services)
     THEN LET entry == services[shut.idx + 1]
              method == TeardownMethod(entry.inst)
          IN /\ shut' = [shut EXCEPT
                           !.idx = @ + 1,
                           !.calls = Append(@, [name |-> entry.name, method |-> method,
                                                threw |-> FALSE]),
                           !.pc = IF method = "warn" THEN "loop" ELSE "await"]
             /\ UNCHANGED services
     ELSE /\ services' = ShutdownClear(services)
          /\ shut' = [shut EXCEPT !.pc = "done"]
  /\ svcRet' = ShutdownAllRet

\* the catch block of shutdownAll
ShutdownCatch_rethrow(sh) == [sh EXCEPT !.pc = "rejected", !.calls[Len(sh.calls)].threw = TRUE]

ShutdownCatch(sh) == [sh EXCEPT !.pc = "loop", !.calls[Len(sh.calls)].threw = TRUE]

\* the awaited shutdown()/close() returns
TeardownReturn ==
  /\ shut.pc = "await"
  /\ shut' = [shut EXCEPT !.pc = "loop"]
  /\ svcRet' = ShutdownAllRet
  /\ UNCHANGED services

\* the awaited shutdown()/close() throws or rejects
TeardownThrow ==
  /\ shut.pc = "await"
  /\ shut' = ShutdownCatch(shut)
  /\ svcRet' = ShutdownAllRet
  /\ UNCHANGED services

ServiceNext ==
  \/ \E name \in ServiceNames, inst \in ServiceInstances : SvcRegister(name, inst)
  \/ \E name \in ServiceNames, inst \in ServiceInstances : SvcSet(name, inst)
  \/ \E name \in ServiceNames : SvcDelete(name)
  \/ ShutdownAllCall
  \/ ShutdownLoop
  \/ TeardownReturn
  \/ TeardownThrow

(***************************************************************************)
(* SchedulerService.init and the STARTUP subscriber of scheduler.startup.ts *)
(***************************************************************************)
\* scheduler.mode: absent, 'attached' or 'standalone'
SchedulerModes == {"undefined", "attached", "standalone"}

\* cfg.module of a job: a service key or the path of a module file
mJobs == "jobs"
mFile == "./jobs/cleanup.job.js"

\* an entry of scheduler.jobs
Job(name, enabled, module, leaderOnly) ==
  [name |-> name, enabled |-> enabled, module |-> module, leaderOnly |-> leaderOnly]

\* Object.entries(cfg.jobs) of the configurations looked at
JobLists == {
  <<>>,
  <<Job("cleanup", TRUE, mFile, FALSE)>>,
  <<Job("cleanup", FALSE, mFile, FALSE)>>,
  <<Job("cleanup", TRUE, mJobs, FALSE), Job("heartbeat", FALSE, mJobs, TRUE)>>,
  <<Job("cleanup", FALSE, mJobs, FALSE), Job("heartbeat", TRUE, mFile, TRUE)>>,
  <<Job("cleanup", TRUE, mJobs, TRUE), Job("heartbeat", TRUE, mJobs, FALSE)>>,
  <<Job("cleanup", TRUE, mJobs, FALSE), Job("heartbeat", TRUE, mFile, FALSE)>> }

AppConfigs ==
  { [scheduler |-> [enabled |-> e, mode |-> m, jobs |-> js], cluster |-> c] :
      e \in BOOLEAN, m \in SchedulerModes, js \in JobLists, c \in BOOLEAN }

DefaultConfig ==
  [scheduler |-> [enabled |-> FALSE, mode |-> "undefined", jobs |-> <<>>], cluster |-> FALSE]

\* the services registered before the STARTUP phase: none, a job module under
\* the key "jobs", or another kind of service under that key
JobService == [id |-> "jobs", shutdown |-> FALSE, close |-> FALSE, run |-> TRUE]
SchedulerInstance == Instance("scheduler", FALSE, FALSE)
StartServices == {
  <<>>,
  <<[name |-> mJobs, inst |-> JobService]>>,
  <<[name |-> mJobs, inst |-> Instance("pool", TRUE, FALSE)]>> }

SubscriberName == "scheduler.startup"

IdleStartup == [pc |-> "idle", created |-> FALSE, down |-> "none"]
IdleInit == [pc |-> "idle", by |-> "none", queue |-> <<>>, may |-> "any", resolved |-> {}]

BootInit(cfg) ==
  /\ config = cfg
  /\ startup = IdleStartup
  /\ initp = IdleInit

\* `if (!jobCfg.enabled) continue`
JobSkipped_never(jobCfg) == FALSE

JobSkipped(jobCfg) == ~jobCfg.enabled

\* the turns of the for..of in init that do not reach `await register(...)`
RECURSIVE InitScan(_)
InitScan(queue) ==
  IF queue # <<>> /\ JobSkipped(Head(queue)) THEN InitScan(Tail(queue)) ELSE queue

\* `svc?.run && svc.id`
IsModule(inst) == "run" \in DOMAIN inst /\ inst.run /\ inst.id # ""

\* the resolver of the STARTUP subscriber: ctx.services.get throws for a key
\* that is not registered, a registered module is returned, anything else is
\* imported from cfg.module (which may succeed or fail)
StartupResolver(svcs, jobCfg) ==
  IF ~SvcHas(svcs, jobCfg.module) THEN "throw"
  ELSE IF IsModule(SvcGet(svcs, jobCfg.module)) THEN "return"
  ELSE "any"

\* what the promise of register(name, jobCfg) can do; a resolver handed in by
\* another caller may do either
Resolve(by, svcs, jobCfg) ==
  IF by = "startup" THEN StartupResolver(svcs, jobCfg) ELSE "any"

\* init from a place in the loop up to its next await or its end
InitAdvance(ip, queue, svcs) ==
  LET rest == InitScan(queue)
  IN IF rest = <<>>
     THEN [ip EXCEPT !.pc = "done", !.queue = <<>>]
     ELSE [ip EXCEPT !.pc = "await", !.queue = rest,
                     !.may = Resolve(ip.by, svcs, Head(rest)),
                     !.resolved = @ \cup {Head(rest).name}]

\* init(register) up to its first await or its end
InitEnter(cfg, by, svcs) ==
  IF ~cfg.enabled
  THEN [IdleInit EXCEPT !.pc = "done", !.by = by]
  ELSE InitAdvance([IdleInit EXCEPT !.by = by], cfg.jobs, svcs)

\* the subscriber awaits init: it settles as init does
StartupAfter(st, ip) ==
  IF ip.by # "startup" THEN st
  ELSE [st EXCEPT !.pc = IF ip.pc = "done" THEN "returned"
                         ELSE IF ip.pc = "rejected" THEN "thrown" ELSE "init"]

\* a caller that holds a SchedulerService calls init with a resolver of its own
InitCall ==
  /\ initp.pc = "idle"
  /\ initp' = InitEnter(config.scheduler, "test", services)
  /\ UNCHANGED <<config, startup, schedVars, hookVars, services, svcRet>>

\* the promise of register(name, jobCfg) fulfils: this.register(name, jobCfg,
\* module), then the loop goes on
ResolverReturn ==
  /\ initp.pc = "await"
  /\ initp.may \in {"return", "any"}
  /\ LET job == Head(initp.queue)
     IN IF tasks[job.name] # 0
        THEN /\ initp' = [initp EXCEPT !.pc = "rejected"]
             /\ UNCHANGED <<objs, tasks>>
        ELSE /\ objs' = Append(objs, [name |-> job.name, leaderOnly |-> job.leaderOnly,
                                      running |-> FALSE, started |-> TRUE,
                                      kind |-> "cron", cancelled |-> FALSE, runs |-> 0])
             /\ tasks' = [tasks EXCEPT ![job.name] = Len(objs) + 1]
             /\ initp' = InitAdvance(initp, Tail(initp.queue), services)
  /\ startup' = StartupAfter(startup, initp')
  /\ UNCHANGED <<config, leaderCheck, fires, schedRet, hookVars, services, svcRet>>

\* the promise of register(name, jobCfg) rejects: init rejects
ResolverThrow ==
  /\ initp.pc = "await"
  /\ initp.may \in {"throw", "any"}
  /\ initp' = [initp EXCEPT !.pc = "rejected"]
  /\ startup' = StartupAfter(startup, initp')
  /\ UNCHANGED <<config, schedVars, hookVars, services, svcRet>>

\* a cron tick / the end of a run while init or the subscriber is under way
BootTick(f, o) == Tick(f, o) /\ UNCHANGED <<bootVars, hookVars, services, svcRet>>
BootRunEnd(f, threw) == RunEnd(f, threw) /\ UNCHANGED <<bootVars, hookVars, services, svcRet>>

\* hookManager.emit(LifecycleHook.STARTUP, ctx)
PhaseCall ==
  /\ emit.st = "idle"
  /\ EmitCall(STARTUP)
  /\ UNCHANGED <<bootVars, schedVars, services, svcRet>>

\* `if (ctx.config.cluster?.enabled)`
ClusterActive_ignored(cfg) == FALSE

ClusterActive(cfg) == cfg.cluster

\* `if (schedCfg.mode === 'standalone') throw`
ClusterForbids_never(schedCfg) == FALSE

ClusterForbids(schedCfg) == schedCfg.mode = "standalone"

\* the turn of emit's loop that calls the subscriber, and the subscriber up to
\* its return, its throw or the first await of init
StartupCall ==
  /\ emit.st = "loop" /\ emit.hook = STARTUP
  /\ emit.idx < Len(listeners[STARTUP])
  /\ listeners[STARTUP][emit.idx + 1] = SubscriberName
  /\ EmitLoop
  /\ LET schedCfg == config.scheduler
     IN IF ~schedCfg.enabled
        THEN /\ startup' = [startup EXCEPT !.pc = "returned"]
             /\ UNCHANGED <<services, svcRet, initp>>
        ELSE IF ClusterActive(config)
        THEN /\ startup' = [startup EXCEPT !.pc = IF ClusterForbids(schedCfg)
                                                  THEN "thrown" ELSE "returned"]
             /\ UNCHANGED <<services, svcRet, initp>>
        ELSE /\ services' = MapSet(services, "scheduler", SchedulerInstance)
             /\ svcRet' = [op |-> "set", err |-> "none"]
             /\ initp' = InitEnter(schedCfg, "startup", services')
             /\ startup' = StartupAfter([startup EXCEPT !.created = TRUE], initp')
  /\ UNCHANGED <<config, schedVars>>

\* the subscriber's promise settles and emit takes it up
StartupSettle ==
  /\ emit.st = "await" /\ emit.hook = STARTUP
  /\ \/ startup.pc = "returned" /\ CallbackReturn(emit.idx)
     \/ startup.pc = "thrown" /\ CallbackThrow(emit.idx)
  /\ UNCHANGED <<bootVars, schedVars, services, svcRet>>

\* the loop of emit finds no further subscriber
PhaseEnd ==
  /\ emit.idx >= Len(listeners[emit.hook])
  /\ EmitLoop
  /\ UNCHANGED <<bootVars, schedVars, services, svcRet>>

\* createServer has resolved and the process is told to stop: shutdown emits
\* the SHUTDOWN phase
ShutdownPhaseCall ==
  /\ emit.st = "resolved" /\ emit.hook = STARTUP
  /\ EmitCall(SHUTDOWN)
  /\ UNCHANGED <<bootVars, schedVars, services, svcRet>>

\* the turn of emit's loop that calls the SHUTDOWN subscriber, and the
\* subscriber to its end: ServiceRegistry.get throws for a name that is not
\* registered, else cancelAll() is called on the scheduler
SubscriberShutdown ==
  /\ emit.st = "loop" /\ emit.hook = SHUTDOWN
  /\ emit.idx < Len(listeners[SHUTDOWN])
  /\ listeners[SHUTDOWN][emit.idx + 1] = SubscriberName
  /\ EmitLoop
  /\ IF ~SvcHas(services, "scheduler")
     THEN /\ startup' = [startup EXCEPT !.down = "thrown"]
          /\ UNCHANGED <<objs, tasks, schedRet>>
     ELSE /\ startup' = [startup EXCEPT !.down = "returned"]
          /\ objs' = CancelAllObjs(objs, tasks)
          /\ tasks' = [n \in JobNames |-> 0]
          /\ schedRet' = SchedRet("cancelAll", 0, "ok")
  /\ UNCHANGED <<config, initp, leaderCheck, fires, services, svcRet>>

\* the SHUTDOWN subscriber's promise settles and emit takes it up
ShutdownSettle ==
  /\ emit.st = "await" /\ emit.hook = SHUTDOWN
  /\ \/ startup.down = "returned" /\ CallbackReturn(emit.idx)
     \/ startup.down = "thrown" /\ CallbackThrow(emit.idx)
  /\ UNCHANGED <<bootVars, schedVars, services, svcRet>>

InitNext ==
  \/ InitCall
  \/ ResolverReturn
  \/ ResolverThrow
  \/ \E f \in 1..MaxFires, o \in 1..MaxObjs : BootTick(f, o)
  \/ \E f \in 1..MaxFires, threw \in BOOLEAN : BootRunEnd(f, threw)

StartupNext ==
  \/ PhaseCall
  \/ StartupCall
  \/ StartupSettle
  \/ ShutdownPhaseCall
  \/ SubscriberShutdown
  \/ ShutdownSettle
  \/ PhaseEnd
  \/ ResolverReturn
  \/ ResolverThrow
  \/ \E f \in 1..MaxFires, o \in 1..MaxObjs : BootTick(f, o)
  \/ \E f \in 1..MaxFires, threw \in BOOLEAN : BootRunEnd(f, threw)

(***************************************************************************)
(* SecurityProvider (src/lib/security/security-provider.ts)                *)
(***************************************************************************)
\* String.prototype.toUpperCase
ToUpperCase(s) == [i \in DOMAIN s |->
                     IF IndexIn(s[i], LowerChars) # 0
                     THEN UpperChars[IndexIn(s[i], LowerChars)] ELSE s[i]]

\* String.prototype.startsWith / slice(from) / trim / indexOf (0: not found)
StartsWith(s, prefix) ==
  Len(s) >= Len(prefix) /\ \A i \in DOMAIN prefix : s[i] = prefix[i]

Slice(s, from) == SubSeq(s, from + 1, Len(s))

RECURSIVE Trim(_)
Trim(s) ==
  IF s # <<>> /\ Head(s) = " " THEN Trim(Tail(s))
  ELSE IF s # <<>> /\ s[Len(s)] = " " THEN Trim(SubSeq(s, 1, Len(s) - 1))
  ELSE s

IndexOf(s, c) ==
  IF \E i \in DOMAIN s : s[i] = c
  THEN CHOOSE i \in DOMAIN s : s[i] = c /\ \A j \in 1..(i - 1) : s[j] # c
  ELSE 0

BearerPrefix == <<"B", "e", "a", "r", "e", "r", " ">>
BasicPrefix == <<"B", "a", "s", "i", "c", " ">>
HS256 == <<"H", "S", "2", "5", "6">>
HS384 == <<"H", "S", "3", "8", "4">>
HS512 == <<"H", "S", "5", "1", "2">>

\* an optional value: the set of the value, or the empty set when it is absent
Some(v) == {v}
Absent == {}

\* auth.basic.users in its map form and its list form
User(username, password) == [username |-> username, password |-> password]
UsersMap == [form |-> "map",
             entries |-> <<User(<<"a", "l", "i", "c", "e">>, <<"p", "a", "s", "s", "w", "o", "r", "d", "1", "2", "3">>), User(<<"c", "a", "r", "o", "l">>, <<"p", "a", "s", "s", ":", "w", "o", "r", "d">>)>>]
UsersList == [form |-> "list",
              entries |-> <<User(<<"a", "l", "i", "c", "e">>, <<"o", "l", "d">>), User(<<"a", "l", "i", "c", "e">>, <<"p", "a", "s", "s", "w", "o", "r", "d", "1", "2", "3">>)>>]

\* config.auth of the configurations looked at
JwtConfig(enabled, secret, algorithm) ==
  [enabled |-> enabled, secret |-> secret, algorithm |-> algorithm]
BasicConfig(enabled, users) == [enabled |-> enabled, users |-> users]
AuthConfigs == {
  Some([jwt |-> Some(JwtConfig(Some(TRUE), Some("testsecret"), Some(HS256))),
        basic |-> Some(BasicConfig(Some(TRUE), Some(UsersMap)))]),
  Some([jwt |-> Some(JwtConfig(Absent, Some("testsecret"), Some(<<"h", "s", "2", "5", "6">>))),
        basic |-> Some(BasicConfig(Some(TRUE), Some(UsersList)))]),
  Some([jwt |-> Some(JwtConfig(Some(FALSE), Some("testsecret"), Some(HS256))),
        basic |-> Some(BasicConfig(Some(FALSE), Some(UsersMap)))]),
  Some([jwt |-> Some(JwtConfig(Some(TRUE), Some(""), Some(<<"R", "S", "2", "5", "6">>))),
        basic |-> Some(BasicConfig(Some(TRUE), Absent))]),
  Absent }

\* the constructor: `auth?.jwt?.enabled ?? true`
JwtEnabled_always(auth) == TRUE

JwtEnabled(auth) ==
  IF \E a \in auth : \E j \in a.jwt : j.enabled # Absent
  THEN \E a \in auth : \E j \in a.jwt : TRUE \in j.enabled
  ELSE TRUE

\* `auth?.jwt?.secret || 'default_secret'`
JwtSecret(auth) ==
  IF \E a \in auth : \E j \in a.jwt : \E s \in j.secret : s # ""
  THEN CHOOSE s \in UNION { j.secret : j \in UNION { a.jwt : a \in auth } } : TRUE
  ELSE "default_secret"

\* the algorithm, upper-cased, if it is a supported one, HS512 otherwise
JwtAlgorithm(auth) ==
  LET given == UNION { j.algorithm : j \in UNION { a.jwt : a \in auth } }
      alg == IF given # {} /\ given # {<<>>} THEN CHOOSE g \in given : TRUE ELSE HS512
  IN IF ToUpperCase(alg) \in {HS256, HS384, HS512} THEN ToUpperCase(alg) ELSE HS512

\* `!!auth?.basic?.enabled`
BasicEnabled(auth) == \E a \in auth : \E b \in a.basic : TRUE \in b.enabled

\* `auth?.basic?.users`
BasicUsers(auth) == UNION { b.users : b \in UNION { a.basic : a \in auth } }

\* new SecurityProvider(config, logger, hooks, services, eventBus); hooks says
\* whether a hook manager and a service registry were handed in
SecurityProvider(auth, hooks) ==
  [auth |-> auth, hooks |-> hooks,
   jwtEnabled |-> JwtEnabled(auth), jwtSecret |-> JwtSecret(auth),
   jwtAlgorithm |-> JwtAlgorithm(auth),
   basicEnabled |-> BasicEnabled(auth), basicUsers |-> BasicUsers(auth)]

\* the tokens that were issued: the key and algorithm they were signed with,
\* whether they have expired, and their payload
Token(secret, alg, expired, sub) ==
  [secret |-> secret, alg |-> alg, expired |-> expired, payload |-> [sub |-> sub]]
IssuedNames == {"good.jwt", "expired.jwt", "otherkey.jwt", "hs512.jwt", "default.jwt"}
IssuedTokens == [t \in IssuedNames |->
  CASE t = "good.jwt" -> Token("testsecret", HS256, FALSE, "user-123")
    [] t = "expired.jwt" -> Token("testsecret", HS256, TRUE, "user-123")
    [] t = "otherkey.jwt" -> Token("othersecret", HS256, FALSE, "mallory")
    [] t = "hs512.jwt" -> Token("testsecret", HS512, FALSE, "user-512")
    [] t = "default.jwt" -> Token("default_secret", HS512, FALSE, "anyone")]

\* verifyToken(token, secret, algorithm): the payload of a well-formed token
\* signed with this key and this algorithm that has not expired; throws (no
\* payload) otherwise
VerifyToken(token, secret, algorithm) ==
  IF Len(token) = 1 /\ token[1] \in IssuedNames
  THEN LET t == IssuedTokens[token[1]]
       IN IF t.secret = secret /\ t.alg = algorithm /\ ~t.expired
          THEN {t.payload} ELSE {}
  ELSE {}

\* Buffer.from(base64, 'base64').toString('utf8') on the values that are sent
Base64Table == {
    [blob |-> "YWxpY2U6cGFzc3dvcmQxMjM=", text |-> <<"a", "l", "i", "c", "e", ":", "p", "a", "s", "s", "w", "o", "r", "d", "1", "2", "3">>],
    [blob |-> "YWxpY2U6d3Jvbmc=", text |-> <<"a", "l", "i", "c", "e", ":", "w", "r", "o", "n", "g">>],
    [blob |-> "bWFsbG9yeTpwYXNzd29yZDEyMw==", text |-> <<"m", "a", "l", "l", "o", "r", "y", ":", "p", "a", "s", "s", "w", "o", "r", "d", "1", "2", "3">>],
    [blob |-> "YWxpY2U=", text |-> <<"a", "l", "i", "c", "e">>],
    [blob |-> "Y2Fyb2w6cGFzczp3b3Jk", text |-> <<"c", "a", "r", "o", "l", ":", "p", "a", "s", "s", ":", "w", "o", "r", "d">>] }
Base64Decode(s) ==
  IF Len(s) = 1 /\ \E e \in Base64Table : e.blob = s[1]
  THEN (CHOOSE e \in Base64Table : e.blob = s[1]).text
  ELSE <<>>

\* the Authorization headers of the requests looked at; a request may also
\* carry none
AuthorizationHeaders == {
    <<"B", "e", "a", "r", "e", "r", " ", "good.jwt">>,
    <<"B", "e", "a", "r", "e", "r", " ", "expired.jwt">>,
    <<"B", "e", "a", "r", "e", "r", " ", "otherkey.jwt">>,
    <<"B", "e", "a", "r", "e", "r", " ", "hs512.jwt">>,
    <<"B", "e", "a", "r", "e", "r", " ", "default.jwt">>,
    <<"B", "e", "a", "r", "e", "r", " ", "invalid.token.here">>,
    <<"B", "e", "a", "r", "e", "r", " ">>,
    <<"b", "e", "a", "r", "e", "r", " ", "good.jwt">>,
    <<"B", "e", "a", "r", "e", "r", "good.jwt">>,
    <<"B", "a", "s", "i", "c", " ", "YWxpY2U6cGFzc3dvcmQxMjM=">>,
    <<"B", "a", "s", "i", "c", " ", "YWxpY2U6d3Jvbmc=">>,
    <<"B", "a", "s", "i", "c", " ", "bWFsbG9yeTpwYXNzd29yZDEyMw==">>,
    <<"B", "a", "s", "i", "c", " ", "YWxpY2U=">>,
    <<"B", "a", "s", "i", "c", " ", "Y2Fyb2w6cGFzczp3b3Jk">>,
    <<"B", "a", "s", "i", "c", " ">>,
    <<"b", "a", "s", "i", "c", " ", "YWxpY2U6cGFzc3dvcmQxMjM=">>,
    <<"B", "a", "s", "i", "c", " ", " ", "YWxpY2U6cGFzc3dvcmQxMjM=", " ">>,
    <<>> }
RouteModes == {"none", "jwt", "basic"}

\* the error handler of the application: the status of an HttpError, 500 otherwise
HttpError(status) == [http |-> TRUE, status |-> status]
PlainError == [http |-> FALSE, status |-> 0]
ErrorStatus(err) == IF err.http THEN err.status ELSE 500

IdleReq == [pc |-> "idle", mode |-> "none", headers |-> {}, token |-> <<>>,
            auth |-> {}, user |-> {}, authn |-> "pending", status |-> 0,
            events |-> <<>>, emits |-> <<>>, err |-> {}]

SecurityInit(auth, hooks) ==
  /\ sec = SecurityProvider(auth, hooks)
  /\ req = IdleReq

\* handleJwt up to the await of verifyToken
HandleJwt_anyScheme(p, headers) ==
  IF ~p.jwtEnabled THEN [out |-> "pass", token |-> <<>>]
  ELSE IF headers = {} THEN [out |-> "401", token |-> <<>>]
  ELSE [out |-> "verify", token |-> Slice(CHOOSE h \in headers : TRUE, 7)]

HandleJwt(p, headers) ==
  IF ~p.jwtEnabled THEN [out |-> "pass", token |-> <<>>]
  ELSE IF \A h \in headers : h = <<>> \/ ~StartsWith(h, BearerPrefix)
  THEN [out |-> "401", token |-> <<>>]
  ELSE [out |-> "verify", token |-> Slice(CHOOSE h \in headers : TRUE, 7)]

\* timingSafeEqual over the bytes of two strings of the same length
SafeEq(a, b) == Len(a) = Len(b) /\ \A i \in DOMAIN a : a[i] = b[i]

\* checkBasicCredentials; in the map form users[username] is the entry under
\* that key, if it is a string
CheckBasicCredentials_userOnly(p, username, password) ==
  \E users \in p.basicUsers : \E i \in DOMAIN users.entries :
    users.entries[i].username = username

CheckBasicCredentials(p, username, password) ==
  \E users \in p.basicUsers : \E i \in DOMAIN users.entries :
    /\ users.entries[i].username = username
    /\ SafeEq(users.entries[i].password, password)

\* handleBasic
HandleBasic(p, headers) ==
  IF ~p.basicEnabled THEN [out |-> "pass", username |-> <<>>]
  ELSE IF \A h \in headers : h = <<>> \/ ~StartsWith(h, BasicPrefix)
  THEN [out |-> "401", username |-> <<>>]
  ELSE LET header == CHOOSE h \in headers : TRUE
           decoded == Base64Decode(Trim(Slice(header, 6)))
           i == IndexOf(decoded, ":")
           username == IF i > 0 THEN SubSeq(decoded, 1, i - 1) ELSE <<>>
           password == IF i > 0 THEN SubSeq(decoded, i + 1, Len(decoded)) ELSE <<>>
       IN IF ~CheckBasicCredentials(p, username, password)
          THEN [out |-> "401", username |-> username]
          ELSE [out |-> "ok", username |-> username]

\* next(): the route handler runs and answers
RouteHandler(r) ==
  [r EXCEPT !.pc = "done", !.status = 200, !.events = Append(@, "handler")]

\* next(err): the error handler answers
ErrorHandler(r, err) ==
  [r EXCEPT !.pc = "done", !.status = ErrorStatus(err), !.err = {err},
            !.events = Append(@, "error")]

\* handleRequest after the authentication step: the SECURITY phase is
\* emitted if hooks and services are there, then next()
AfterAuth_noEmit(p, r) == RouteHandler(r)

AfterAuth(p, r) ==
  IF p.hooks
  THEN [r EXCEPT !.pc = "security", !.events = Append(@, "security"),
                 !.emits = Append(@, [hook |-> SECURITY,
                                      request |-> [mode |-> r.mode, headers |-> r.headers,
                                                   auth |-> r.auth]])]
  ELSE RouteHandler(r)

\* the SECURITY phase emitted before the authentication step
GateCall_emitFirst(mode, headers) ==
  /\ req.pc \in {"idle", "done"}
  /\ req' = AfterAuth(sec, [IdleReq EXCEPT !.pc = "gate", !.mode = mode, !.headers = headers])
  /\ UNCHANGED sec

\* the middleware of createMiddleware(meta) is called with a request: up to
\* the answer or the first await that can take time
GateCall(mode, headers) ==
  /\ req.pc \in {"idle", "done"}
  /\ LET r == [IdleReq EXCEPT !.pc = "gate", !.mode = mode, !.headers = headers]
     IN req' =
        IF mode = "none" THEN AfterAuth(sec, [r EXCEPT !.authn = "none"])
        ELSE IF mode = "basic"
        THEN LET b == HandleBasic(sec, headers)
             IN IF b.out = "401"
                THEN ErrorHandler([r EXCEPT !.authn = "401"], HttpError(401))
                ELSE IF b.out = "pass"
                THEN AfterAuth(sec, [r EXCEPT !.authn = "passed"])
                ELSE AfterAuth(sec, [r EXCEPT !.authn = "passed",
                       !.auth = {[username |-> b.username, auth |-> "basic"]},
                       !.user = {[username |-> b.username, auth |-> "basic"]}])
        ELSE LET j == HandleJwt(sec, headers)
             IN IF j.out = "401"
                THEN ErrorHandler([r EXCEPT !.authn = "401"], HttpError(401))
                ELSE IF j.out = "pass"
                THEN AfterAuth(sec, [r EXCEPT !.authn = "passed"])
                ELSE [r EXCEPT !.pc = "verify", !.token = j.token]
  /\ UNCHANGED sec

\* verifyToken settles: the payload is attached, or the catch throws 403
VerifySettle ==
  /\ req.pc = "verify"
  /\ LET payload == VerifyToken(req.token, sec.jwtSecret, sec.jwtAlgorithm)
     IN req' = IF payload = {}
               THEN ErrorHandler([req EXCEPT !.authn = "403"], HttpError(403))
               ELSE AfterAuth(sec, [req EXCEPT !.authn = "passed",
                                               !.auth = payload, !.user = payload])
  /\ UNCHANGED sec

\* hooks.emit(LifecycleHook.SECURITY, ...) resolves
SecurityEmitReturn ==
  /\ req.pc = "security"
  /\ req' = RouteHandler(req)
  /\ UNCHANGED sec

\* a SECURITY subscriber throws: the catch of emit decides whether the emit
\* rejects; the rejection goes to next(err) through the catch of the middleware
SecurityEmitThrow(err) ==
  /\ req.pc = "security"
  /\ LET threw == [req EXCEPT !.events = Append(@, "securityThrew")]
         e == EmitCatch([IdleEmit EXCEPT !.st = "await", !.hook = SECURITY], err)
     IN req' = IF e.st = "rejected" THEN ErrorHandler(threw, e.err) ELSE RouteHandler(threw)
  /\ UNCHANGED sec

SecurityNext ==
  \/ \E mode \in RouteModes, h \in AuthorizationHeaders :
       \E headers \in {Some(h), Absent} : GateCall(mode, headers)
  \/ VerifySettle
  \/ SecurityEmitReturn
  \/ \E err \in {HttpError(403), PlainError} : SecurityEmitThrow(err)

(***************************************************************************)
(* ControllerLoader (src/lib/controller-loader.ts)                         *)
(***************************************************************************)
\* path.posix.join: the non-empty arguments joined with "/" and normalized
RECURSIVE JoinArgs(_)
JoinArgs(args) ==
  IF args = <<>> THEN <<>>
  ELSE IF Head(args) = <<>> THEN JoinArgs(Tail(args))
  ELSE LET rest == JoinArgs(Tail(args))
       IN IF rest = <<>> THEN Head(args) ELSE Head(args) \o <<"/">> \o rest

PosixJoin(args) ==
  IF JoinArgs(args) = <<>> THEN <<".">> ELSE PosixNormalize(JoinArgs(args))

ContextRoot == <<"/", "a", "p", "i">>

\* the methods an express Router has a function for, among those looked at
RouterMethods == {mGet, mPost}
mFetch == <<"f", "e", "t", "c", "h">>

\* an entry of handlers[]; secure is 'basic', 'jwt', true, or something else
Handler(method, hpath, secure) == [method |-> method, path |-> hpath, secure |-> secure]

\* the default export of a controller module: with handlers[], with init(),
\* with neither, or no default export at all
SimpleController(route, handlers) == [kind |-> "handlers", route |-> route, handlers |-> handlers]
AdvancedController(route) == [kind |-> "init", route |-> route, handlers |-> <<>>]
NeitherController(route) == [kind |-> "neither", route |-> route, handlers |-> <<>>]
NoDefaultExport == [kind |-> "undefined", route |-> <<>>, handlers |-> <<>>]

\* the files of the controller directories looked at: path.extname of the
\* name and what importing the file gives (nothing: the import always fails)
File(name, ext, module) == [name |-> name, ext |-> ext, module |-> module]
fUsers == File("users.js", ".js", Some(SimpleController(<<"/", "u", "s", "e", "r", "s">>,
            <<Handler(mGet, <<"/">>, "undefined"), Handler(mPost, <<"/">>, "jwt")>>)))
fHalf == File("half.js", ".js", Some(SimpleController(<<"/", "h", "a", "l", "f">>,
            <<Handler(mGET, <<"/", "o", "k">>, "basic"), Handler(mFetch, <<"/", "b", "a", "d">>, "true")>>)))
fUsersTs == File("users.ts", ".ts", Some(SimpleController(<<"/", "u", "s", "e", "r", "s", "/">>,
            <<Handler(mGet, <<>>, "basic")>>)))
fAdmin == File("admin.ts", ".ts", Some(AdvancedController(<<"/", "a", "d", "m", "i", "n">>)))
fEmpty == File("empty.js", ".js", Some(NeitherController(<<"/", "e", "m", "p", "t", "y">>)))
fNoDefault == File("nodefault.js", ".js", Some(NoDefaultExport))
fBroken == File("broken.js", ".js", Absent)
fNotes == File("notes.md", ".md", Absent)

\* what readdir returns for the directories looked at
Directories == {
  <<>>,
  <<fUsers>>,
  <<fBroken, fUsers>>,
  <<fHalf, fNotes, fUsers>>,
  <<fAdmin, fEmpty, fUsers>>,
  <<fNoDefault, fAdmin>>,
  <<fUsers, fHalf, fAdmin>>,
  <<fUsers, fUsersTs>>,
  <<fUsersTs, fBroken, fAdmin>>,
  <<fAdmin, fHalf>>,
  <<fEmpty, fNoDefault, fUsersTs>>,
  <<fNotes>>,
  <<fBroken>>,
  <<fUsersTs, fUsers, fAdmin>>,
  <<fHalf, fUsersTs, fUsers>> }

IdleLoader == [pc |-> "idle", readdir |-> "pending", dir |-> <<>>, queue |-> <<>>, mounted |-> <<>>,
               registered |-> <<>>, failed |-> <<>>, conflicts |-> <<>>, err |-> {}]

LoaderInit == loader = IdleLoader

\* the security mode of a handler: 'basic' | 'jwt' | 'none'
SecMode(h) ==
  IF h.secure = "basic" THEN sBasic
  ELSE IF h.secure = "jwt" \/ h.secure = "true" THEN sJwt
  ELSE sNone

\* `['.js', '.ts'].includes(ext)`
IsControllerFile(file) == file.ext \in {".js", ".ts"}

\* the loop over mod.handlers: each handler is put on the router, then
\* pushed on this.registered and registered in the RouteRegistry; a method
\* the router has no function for throws at `router[method](...)`
RECURSIVE WireHandlers(_, _, _)
WireHandlers(file, mod, st) ==
  LET done == Len(st.registered) - st.base
  IN IF done = Len(mod.handlers) THEN st
     ELSE LET h == mod.handlers[done + 1]
              method == ToLowerCase(h.method)
              full == PosixJoin(<<ContextRoot, mod.route, h.path>>)
          IN IF method \notin RouterMethods
             THEN [st EXCEPT !.threw = TRUE]
             ELSE WireHandlers(file, mod,
                    [st EXCEPT
                       !.registered = Append(@, [method |-> method, path |-> h.path,
                                                 fullPath |-> full, secure |-> SecMode(h),
                                                 controller |-> file.name]),
                       !.routes = Append(@, NormEntry(Route(method, full, SecMode(h),
                                                            file.name)))])

\* `app.use(path.posix.join(contextRoot, mod.route), router)`
Mount(l, file, mod) ==
  [l EXCEPT !.mounted = Append(@, [at |-> PosixJoin(<<ContextRoot, mod.route>>),
                                   controller |-> file.name])]

\* the catch inside the loop: the error is logged, the file is given up
LoadCatch_rethrow(l, file) ==
  [l EXCEPT !.pc = "rejected", !.failed = Append(@, file.name), !.err = {file.name}]

LoadCatch(l, file) == [l EXCEPT !.failed = Append(@, file.name)]

\* the for..of over the files up to the next `await import(controllerFile)`,
\* or, after the last file, the conflict check that ends load
RECURSIVE LoadAdvance(_, _)
LoadAdvance(l, routes) ==
  IF l.pc = "rejected" THEN l
  ELSE IF l.queue = <<>>
  THEN [l EXCEPT !.pc = "resolved", !.conflicts = DetectConflicts(routes)]
  ELSE IF ~IsControllerFile(Head(l.queue))
  THEN LoadAdvance([l EXCEPT !.queue = Tail(@)], routes)
  ELSE [l EXCEPT !.pc = "import"]

\* load(app, contextRoot) up to `await fs.readdir(fullPath)`
LoadCall ==
  /\ loader.pc = "idle"
  /\ loader' = [loader EXCEPT !.pc = "readdir"]
  /\ UNCHANGED routeVars

\* readdir fulfils with the names of the directory
ReaddirReturn(files) ==
  /\ loader.pc = "readdir"
  /\ loader' = LoadAdvance([loader EXCEPT !.readdir = "ok", !.dir = files, !.queue = files],
                           Routes)
  /\ UNCHANGED routeVars

\* the outer catch: the error is logged and thrown again
ReaddirCatch_swallow(l, err) == [l EXCEPT !.pc = "resolved"]

ReaddirCatch(l, err) == [l EXCEPT !.pc = "rejected", !.err = {err}]

\* readdir rejects: the directory cannot be read
ReaddirThrow ==
  /\ loader.pc = "readdir"
  /\ loader' = ReaddirCatch([loader EXCEPT !.readdir = "failed"], "ENOENT")
  /\ UNCHANGED routeVars

\* the import of the current file fulfils: its default export is wired
\* and mounted, up to the next await
ImportReturn ==
  /\ loader.pc = "import"
  /\ LET file == Head(loader.queue)
         next == [loader EXCEPT !.queue = Tail(@)]
     IN /\ file.module # Absent
        /\ LET mod == CHOOSE m \in file.module : TRUE
           IN IF mod.kind = "init"
              THEN /\ loader' = [loader EXCEPT !.pc = "init"]
                   /\ UNCHANGED arrays
              ELSE IF mod.kind = "handlers"
              THEN LET w == WireHandlers(file, mod,
                              [registered |-> loader.registered, routes |-> Routes,
                               base |-> Len(loader.registered), threw |-> FALSE])
                       wired == [next EXCEPT !.registered = w.registered]
                   IN /\ arrays' = [arrays EXCEPT ![RoutesRef] = w.routes]
                      /\ loader' = LoadAdvance(IF w.threw THEN LoadCatch(wired, file)
                                               ELSE Mount(wired, file, mod), w.routes)
              ELSE /\ loader' = LoadAdvance(LoadCatch(next, file), Routes)
                   /\ UNCHANGED arrays
  /\ ret' = [op |-> "load", val |-> <<>>]
  /\ UNCHANGED callerRef

\* the import of the current file rejects
ImportThrow ==
  /\ loader.pc = "import"
  /\ loader' = LoadAdvance(LoadCatch([loader EXCEPT !.queue = Tail(@)], Head(loader.queue)),
                           Routes)
  /\ UNCHANGED routeVars

\* mod.init(router, logger, security) settles: the router is mounted, or
\* the catch gives the file up
ControllerInitReturn ==
  /\ loader.pc = "init"
  /\ LET file == Head(loader.queue)
         mod == CHOOSE m \in file.module : TRUE
     IN loader' = LoadAdvance(Mount([loader EXCEPT !.queue = Tail(@)], file, mod), Routes)
  /\ UNCHANGED routeVars

ControllerInitThrow ==
  /\ loader.pc = "init"
  /\ loader' = LoadAdvance(LoadCatch([loader EXCEPT !.queue = Tail(@)], Head(loader.queue)),
                           Routes)
  /\ UNCHANGED routeVars

LoaderNext ==
  \/ LoadCall
  \/ \E files \in Directories : ReaddirReturn(files)
  \/ ReaddirThrow
  \/ ImportReturn
  \/ ImportThrow
  \/ ControllerInitReturn
  \/ ControllerInitThrow

(***************************************************************************)
(* bootstrap: graceful shutdown and fatal handlers                         *)
(***************************************************************************)
Signals == {"SIGINT", "SIGTERM"}
FatalEvents == {"unhandledRejection", "uncaughtException"}
SHUTDOWN_TIMEOUT_MS == 10000
SERVICE_SHUTDOWN_TIMEOUT_MS == 30000

\* how many times shutdown is called in one run of the model
MaxTriggers == 2

\* the process: `server` is whether the module variable holds an HTTP server,
\* `calls` the calls of shutdown so far, `shutdownAlls` and `teardowns` count
\* the calls of ctx.services.shutdownAll() and of each service's
\* shutdown()/close(), `exit` holds the exit code once process.exit ran
IdleProc == [server |-> FALSE, calls |-> <<>>, shutdownAlls |-> 0,
             teardowns |-> [n \in ServiceNames |-> 0], exit |-> {}]

\* createServer: pc is where the call is, log the phases it emitted and the
\* steps it took, ran the subscribers it started, in order
IdleCreate == [pc |-> "idle", log |-> <<>>, ran |-> <<>>]

ProcInit(server) ==
  /\ proc = [IdleProc EXCEPT !.server = server]
  /\ create = IdleCreate

\* one call of shutdown(reason): pc is where the call waits, idx the SHUTDOWN
\* subscriber it awaits, all/sidx the state of its shutdownAll promise and
\* the entry that one awaits, timer whether onFatal armed its exit timer
ShutdownCallRec(reason, timer) ==
  [reason |-> reason, pc |-> "start", idx |-> 0, all |-> "none", sidx |-> 0,
   timer |-> timer, timedOut |-> FALSE, caught |-> FALSE]

\* the services an application registered before the shutdown
RegisteredServices == {
  <<>>,
  <<[name |-> "db", inst |-> Instance("pool", TRUE, FALSE)]>>,
  <<[name |-> "db", inst |-> Instance("plain", FALSE, FALSE)],
    [name |-> "cache", inst |-> Instance("client", FALSE, TRUE)]>>,
  <<[name |-> "db", inst |-> Instance("both", TRUE, TRUE)],
    [name |-> "cache", inst |-> Instance("pool", TRUE, FALSE)]>> }

\* the SHUTDOWN subscribers an application registered
ShutdownSubscribers == {<<>>, <<"cbA">>, <<"cbA", "cbB">>}

\* `finally { process.exit(0) }`, and the exit of the fatal timer
ProcessExit(st, i, code) ==
  [st EXCEPT !.p.exit = {[code |-> code, by |-> i]}, !.p.calls[i].pc = "exited"]

\* `if (server) { await new Promise(... server.close ...) }`, then the flush
\* of the log appenders, which never waits, and the finally block
CloseServer(st, i) ==
  IF st.p.server THEN [st EXCEPT !.p.calls[i].pc = "closing"]
                 ELSE ProcessExit(st, i, 0)

\* the loop of shutdownAll() from the entry after sidx, up to the next await:
\* the iterator reads the live Map, so a Map another call cleared ends it
RECURSIVE ShutdownAllLoop(_, _)
ShutdownAllLoop(st, i) ==
  LET c == st.p.calls[i]
  IN IF c.sidx < Len(st.s)
     THEN LET entry == st.s[c.sidx + 1]
              nxt == [st EXCEPT !.p.calls[i].sidx = @ + 1]
          IN IF TeardownMethod(entry.inst) = "warn"
             THEN ShutdownAllLoop(nxt, i)
             ELSE [nxt EXCEPT !.p.calls[i].all = "await",
                              !.p.teardowns[entry.name] = @ + 1]
     ELSE LET done == [st EXCEPT !.s = ShutdownClear(@), !.p.calls[i].all = "done"]
          IN IF c.pc = "services" THEN CloseServer(done, i) ELSE done

\* `const shutdownPromise = ctx.services.shutdownAll(); await Promise.race(...)`
ShutdownServices_skip(st, i) == CloseServer([st EXCEPT !.p.calls[i].pc = "services"], i)

ShutdownServices(st, i) ==
  ShutdownAllLoop([st EXCEPT !.p.calls[i].pc = "services",
                             !.p.shutdownAlls = @ + 1], i)

\* `await hookManager.emit(LifecycleHook.SHUTDOWN, ctx)`: the loop of emit up
\* to the next subscriber it awaits, and what follows when it resolves
EmitShutdown(st, i) ==
  IF st.p.calls[i].idx < Len(listeners[SHUTDOWN])
  THEN [st EXCEPT !.p.calls[i].idx = @ + 1, !.p.calls[i].pc = "hooks"]
  ELSE ShutdownServices(st, i)

\* shutdown(reason), up to its first await
ShutdownCall(reason, timer) ==
  /\ proc.exit = {}
  /\ Len(proc.calls) < MaxTriggers
  /\ LET i == Len(proc.calls) + 1
         st == EmitShutdown([p |-> [proc EXCEPT !.calls = Append(@, ShutdownCallRec(reason, timer))],
                             s |-> services], i)
     IN proc' = st.p /\ services' = st.s

\* process.on('SIGINT' | 'SIGTERM', () => shutdown(...))
OnSignal(sig) == ShutdownCall(sig, FALSE)

\* onFatal(type): arms the exit timer and calls shutdown(type)
OnFatal(type) == ShutdownCall(type, TRUE)

\* the SHUTDOWN subscriber the call awaits returns
SubscriberReturn(i) ==
  /\ proc.exit = {}
  /\ i \in DOMAIN proc.calls /\ proc.calls[i].pc = "hooks"
  /\ LET st == EmitShutdown([p |-> proc, s |-> services], i)
     IN proc' = st.p /\ services' = st.s

\* the SHUTDOWN subscriber the call awaits throws: the catch block of emit,
\* and when emit rejects the catch and finally blocks of shutdown
SubscriberThrow(i) ==
  /\ proc.exit = {}
  /\ i \in DOMAIN proc.calls /\ proc.calls[i].pc = "hooks"
  /\ LET e == EmitCatch([IdleEmit EXCEPT !.st = "await", !.hook = SHUTDOWN],
                        <<listeners[SHUTDOWN][proc.calls[i].idx], proc.calls[i].idx>>)
         st0 == [p |-> proc, s |-> services]
         st == IF e.st = "rejected"
               THEN ProcessExit([st0 EXCEPT !.p.calls[i].caught = TRUE], i, 0)
               ELSE EmitShutdown(st0, i)
     IN proc' = st.p /\ services' = st.s

\* the teardown some shutdownAll awaits settles; a rejection is logged by
\* the catch block of shutdownAll and the loop goes on all the same
ServiceSettles(i, threw) ==
  /\ proc.exit = {}
  /\ i \in DOMAIN proc.calls /\ proc.calls[i].all = "await"
  /\ LET st == ShutdownAllLoop([p |-> proc, s |-> services], i)
     IN proc' = st.p /\ services' = st.s

\* the timer of Promise.race fires: the race rejects, shutdown logs 'Error
\* during service shutdown' and goes on; the shutdownAll promise stays as it is
RaceTimeout_hang(st, i) == st

RaceTimeout(st, i) == CloseServer([st EXCEPT !.p.calls[i].timedOut = TRUE], i)

\* the timer of a call that onFatal made was armed before the call, so the
\* timer of its race fires first only if it is the shorter one
ServiceTimerFires(i) ==
  /\ proc.exit = {}
  /\ i \in DOMAIN proc.calls /\ proc.calls[i].pc = "services"
  /\ proc.calls[i].timer => SERVICE_SHUTDOWN_TIMEOUT_MS < SHUTDOWN_TIMEOUT_MS
  /\ LET st == RaceTimeout([p |-> proc, s |-> services], i)
     IN proc' = st.p /\ services' = st.s

\* `setTimeout(() => process.exit(1), SHUTDOWN_TIMEOUT_MS)` of onFatal fires
FatalTimerFires(i) ==
  /\ proc.exit = {}
  /\ i \in DOMAIN proc.calls /\ proc.calls[i].timer
  /\ LET st == ProcessExit([p |-> proc, s |-> services], i, 1)
     IN proc' = st.p /\ services' = st.s

\* server.close calls back, with or without an error; the log appenders are
\* flushed and the finally block exits
ServerClosed(i, err) ==
  /\ proc.exit = {}
  /\ i \in DOMAIN proc.calls /\ proc.calls[i].pc = "closing"
  /\ LET st == ProcessExit([p |-> proc, s |-> services], i, 0)
     IN proc' = st.p /\ services' = st.s

\* the steps the timers and the HTTP server take by themselves
ShutdownProgress ==
  \E i \in 1..MaxTriggers :
    ServiceTimerFires(i) \/ FatalTimerFires(i) \/ ServerClosed(i, FALSE)

ShutdownNext ==
  \/ \E sig \in Signals : OnSignal(sig)
  \/ \E type \in FatalEvents : OnFatal(type)
  \/ \E i \in 1..MaxTriggers : SubscriberReturn(i)
  \/ \E i \in 1..MaxTriggers : SubscriberThrow(i)
  \/ \E i \in 1..MaxTriggers, threw \in BOOLEAN : ServiceSettles(i, threw)
  \/ \E i \in 1..MaxTriggers : ServiceTimerFires(i)
  \/ \E i \in 1..MaxTriggers : FatalTimerFires(i)
  \/ \E i \in 1..MaxTriggers, err \in BOOLEAN : ServerClosed(i, err)


(***************************************************************************)
(* bootstrap: createServer                                                 *)
(***************************************************************************)
\* the phases createServer emits, in the order of its emit calls
CreatePhases == <<STARTUP, PRE_INIT, CUSTOM_MIDDLEWARE, POST_INIT>>

\* the subscribers an application registered on the global hookManager
\* before it calls createServer
RegisteredSubscribers ==
  { [h \in LifecycleHook |-> IF h \in on THEN <<"cbA">> ELSE <<>>] :
      on \in SUBSET {INITIALIZE, STARTUP, PRE_INIT, CUSTOM_MIDDLEWARE, POST_INIT} }
  \cup { [h \in LifecycleHook |-> IF h \in {INITIALIZE, STARTUP} THEN <<"cbA", "cbB">> ELSE <<>>] }

\* createServer(configInput), up to `await hookManager.emit(STARTUP, ctx)`
CreateServerCall ==
  /\ create.pc = "idle"
  /\ EmitCall(CreatePhases[1])
  /\ create' = [create EXCEPT !.pc = "phase", !.log = <<CreatePhases[1]>>]

\* one turn of the loop of the emit that createServer awaits
CreateEmitLoop ==
  /\ create.pc = "phase"
  /\ EmitLoop
  /\ create' = [create EXCEPT !.ran = IF emit'.st = "await"
                                      THEN Append(@, <<emit.hook, emit'.idx>>)
                                      ELSE @]

\* a subscriber returns or throws
CreateCallbackReturn(pos) == create.pc = "phase" /\ CallbackReturn(pos) /\ UNCHANGED create

CreateCallbackThrow(pos) == create.pc = "phase" /\ CallbackThrow(pos) /\ UNCHANGED create

\* the emit resolved: createServer goes on to its next emit, and after the
\* last one to `await loader.load(app, config.contextRoot)`
CreateAdvance ==
  /\ create.pc = "phase"
  /\ emit.st = "resolved"
  /\ IF Len(create.log) < Len(CreatePhases)
     THEN /\ EmitCall(CreatePhases[Len(create.log) + 1])
          /\ create' = [create EXCEPT !.log = Append(@, CreatePhases[Len(create.log) + 1])]
     ELSE /\ create' = [create EXCEPT !.pc = "load", !.log = Append(@, "controllers")]
          /\ UNCHANGED hookVars

\* the emit rejected: createServer rejects
CreateReject ==
  /\ create.pc = "phase"
  /\ emit.st = "rejected"
  /\ create' = [create EXCEPT !.pc = "rejected"]
  /\ UNCHANGED hookVars

\* loader.load settles: createServer installs the ops endpoints and the
\* shutdown handlers and returns, or rejects with the error of load
CreateLoadSettles(ok) ==
  /\ create.pc = "load"
  /\ create' = [create EXCEPT !.pc = IF ok THEN "returned" ELSE "rejected"]
  /\ UNCHANGED hookVars

CreateNext ==
  \/ CreateServerCall
  \/ CreateEmitLoop
  \/ \E pos \in 1..MaxRegs : CreateCallbackReturn(pos)
  \/ \E pos \in 1..MaxRegs : CreateCallbackThrow(pos)
  \/ CreateAdvance
  \/ CreateReject
  \/ \E ok \in BOOLEAN : CreateLoadSettles(ok)

(***************************************************************************)
(* Specifications, one per component                                       *)
(***************************************************************************)
Init ==
  /\ RouteInit /\ HookInit /\ ServiceInit /\ SchedNew("none") /\ BootInit(DefaultConfig)
  /\ SecurityInit(Absent, FALSE) /\ LoaderInit /\ ProcInit(FALSE)
SchedInit ==
  /\ RouteInit /\ HookInit /\ ServiceInit /\ BootInit(DefaultConfig)
  /\ SecurityInit(Absent, FALSE) /\ LoaderInit /\ ProcInit(FALSE)
  /\ \E kind \in LeaderCheckKinds : SchedNew(kind)

SpecRoutes == Init /\ [][RouteNext /\ UNCHANGED <<hookVars, schedVars, svcVars, bootVars, secVars, loadVars, procVars>>]_vars
SpecCopy == Init /\ [][CopyNext /\ UNCHANGED <<hookVars, schedVars, svcVars, bootVars, secVars, loadVars, procVars>>]_vars
SpecHooks == Init /\ [][HookNext /\ UNCHANGED <<routeVars, schedVars, svcVars, bootVars, secVars, loadVars, procVars>>]_vars
SpecSched == SchedInit /\ [][SchedNext /\ UNCHANGED <<routeVars, hookVars, svcVars, bootVars, secVars, loadVars, procVars>>]_vars
SpecTimers == SchedInit /\ [][TimerNext /\ UNCHANGED <<routeVars, hookVars, svcVars, bootVars, secVars, loadVars, procVars>>]_vars
SpecServices == Init /\ [][ServiceNext /\ UNCHANGED <<routeVars, hookVars, schedVars, bootVars, secVars, loadVars, procVars>>]_vars

\* a SchedulerService built over any of the configurations, init called on it
BootConfigInit ==
  /\ RouteInit /\ HookInit /\ ServiceInit /\ SchedNew("none")
  /\ \E cfg \in AppConfigs : BootInit(cfg)
  /\ SecurityInit(Absent, FALSE) /\ LoaderInit /\ ProcInit(FALSE)
SpecInit == BootConfigInit /\ [][InitNext /\ UNCHANGED <<routeVars, shut, secVars, loadVars, procVars>>]_vars

\* the application before the STARTUP phase: scheduler.startup.ts has
\* subscribed, some services are registered, no SchedulerService exists
StartupInit ==
  /\ RouteInit /\ SchedNew("none")
  /\ listeners = [h \in LifecycleHook |->
                    IF h \in {STARTUP, SHUTDOWN} THEN <<SubscriberName>> ELSE <<>>]
  /\ emit = IdleEmit
  /\ services \in StartServices /\ shut = IdleShut /\ svcRet = NoSvcRet
  /\ \E cfg \in AppConfigs : BootInit(cfg)
  /\ SecurityInit(Absent, FALSE) /\ LoaderInit /\ ProcInit(FALSE)
SpecStartup == StartupInit /\ [][StartupNext /\ UNCHANGED <<routeVars, shut, secVars, loadVars, procVars>>]_vars

\* a SecurityProvider built from any of the configurations, with or without
\* a hook manager and service registry
GateInit ==
  /\ RouteInit /\ HookInit /\ ServiceInit /\ SchedNew("none") /\ BootInit(DefaultConfig)
  /\ \E auth \in AuthConfigs, hooks \in BOOLEAN : SecurityInit(auth, hooks)
  /\ LoaderInit /\ ProcInit(FALSE)
SpecSecurity ==
  GateInit /\ [][SecurityNext /\ UNCHANGED <<routeVars, hookVars, schedVars, svcVars, bootVars, loadVars, procVars>>]_vars

\* a ControllerLoader with its own RouteRegistry, load called once
\* the process after createServer: SHUTDOWN subscribers and services are those
\* the application registered, the handlers of process.on are installed
ShutdownInit ==
  /\ RouteInit /\ SchedNew("none") /\ BootInit(DefaultConfig)
  /\ SecurityInit(Absent, FALSE) /\ LoaderInit
  /\ emit = IdleEmit /\ shut = IdleShut /\ svcRet = NoSvcRet
  /\ \E subs \in ShutdownSubscribers :
       listeners = [h \in LifecycleHook |-> IF h = SHUTDOWN THEN subs ELSE <<>>]
  /\ services \in RegisteredServices
  /\ \E server \in BOOLEAN : ProcInit(server)
ShutdownStep ==
  ShutdownNext /\ UNCHANGED <<routeVars, hookVars, schedVars, shut, svcRet, bootVars, secVars, loadVars, create>>
SpecShutdown == ShutdownInit /\ [][ShutdownStep]_vars
\* timers fire and server.close calls back; nothing obliges a subscriber or
\* a teardown to settle
SpecShutdownFair ==
  /\ SpecShutdown
  /\ WF_vars(ShutdownProgress /\ UNCHANGED <<routeVars, hookVars, schedVars, shut, svcRet, bootVars, secVars, loadVars, create>>)

CreateInit ==
  /\ RouteInit /\ ServiceInit /\ SchedNew("none") /\ BootInit(DefaultConfig)
  /\ SecurityInit(Absent, FALSE) /\ LoaderInit
  /\ emit = IdleEmit
  /\ listeners \in RegisteredSubscribers
  /\ proc = IdleProc /\ create = IdleCreate
SpecCreate ==
  CreateInit /\ [][CreateNext /\ UNCHANGED <<routeVars, schedVars, svcVars, bootVars, secVars, loadVars, proc>>]_vars

SpecLoader ==
  Init /\ [][LoaderNext /\ UNCHANGED <<hookVars, schedVars, svcVars, bootVars, secVars, procVars>>]_vars

(***************************************************************************)
(* Properties of the HookManager                                           *)
(***************************************************************************)
\* C1: within one emit the subscribers of the phase run one at a time and in
\* registration order: at most one callback is executing, the k-th callback
\* started is the one registered k-th, and none is started twice.
C1_SequentialInOrder ==
  /\ Cardinality(emit.active) <= 1
  /\ \A i \in DOMAIN emit.invoked : emit.invoked[i] = i
  /\ Len(emit.invoked) <= Len(listeners[emit.hook])
  /\ emit.active # {} => emit.active = {Len(emit.invoked)}

\* a second subscriber is executing after the first one has settled
C1_Witness ==
  /\ emit.st = "await"
  /\ Len(emit.invoked) >= 2
  /\ Len(listeners[emit.hook]) >= 2

\* C2: in a phase other than CUSTOM_MIDDLEWARE a throwing subscriber makes
\* emit reject with that subscriber's error, and no subscriber registered
\* after it is invoked in that emit.
C2_FailFast ==
  (emit.hook # CUSTOM_MIDDLEWARE /\ emit.thrown # {}) =>
    \E pos \in DOMAIN listeners[emit.hook] :
      /\ emit.thrown = {pos}
      /\ emit.st = "rejected"
      /\ emit.err = <<listeners[emit.hook][pos], pos>>
      /\ Len(emit.invoked) = pos
      /\ emit.active = {}

\* a subscriber threw while another one was registered behind it
C2_Witness ==
  /\ emit.hook # CUSTOM_MIDDLEWARE
  /\ emit.thrown # {}
  /\ Len(listeners[emit.hook]) > Len(emit.invoked)

\* C3: in the CUSTOM_MIDDLEWARE phase emit never rejects, and when it
\* resolves every subscriber of the phase has been invoked, in registration
\* order, whatever subset of them threw.
C3_BestEffort ==
  [][emit'.hook = CUSTOM_MIDDLEWARE =>
       /\ emit'.st # "rejected"
       /\ emit'.err = NoErr
       /\ (emit'.st = "resolved" /\ emit.st # "resolved") =>
            emit'.invoked = [i \in 1..Len(listeners[CUSTOM_MIDDLEWARE]) |-> i]]_vars

\* the emit resolved although the first of several subscribers threw
C3_Witness ==
  /\ emit.hook = CUSTOM_MIDDLEWARE
  /\ emit.st = "resolved"
  /\ 1 \in emit.thrown
  /\ Len(emit.invoked) >= 2

(***************************************************************************)
(* Properties of the SchedulerService                                      *)
(***************************************************************************)
RunsInFlight(o) == {f \in 1..MaxFires : fires[f].pc = "run" /\ fires[f].obj = o}

\* C4: at most one execution of a job's run function is in flight at any
\* time, whatever the job's configuration and the interleaving of fires.
C4_AtMostOneRun ==
  \A o \in DOMAIN objs : Cardinality(RunsInFlight(o)) <= 1

(***************************************************************************)
(* Properties of the RouteRegistry                                         *)
(***************************************************************************)
SameGroup(a, b) == a.method = b.method /\ a.path = b.path

\* the members of the (method, path) group of r, as a conflict message lists them
RECURSIVE GroupMembers(_, _)
GroupMembers(rs, r) ==
  IF rs = <<>> THEN <<>>
  ELSE IF SameGroup(Head(rs), r)
  THEN <<[source |-> Head(rs).source, secure |-> Head(rs).secure]>> \o GroupMembers(Tail(rs), r)
  ELSE GroupMembers(Tail(rs), r)

GroupText(r) == r.method \o <<" ">> \o r.path

C6_SameSourceNoConflict ==
  (/\ ret.op = "detectConflicts"
   /\ \A i, j \in DOMAIN Routes :
        SameGroup(Routes[i], Routes[j]) => Routes[i].source = Routes[j].source)
  => ret.val = <<>>

\* C7: two routes from different sources whose methods and paths are equal
\* up to letter case are reported as one conflict.
C7_CaseInsensitive ==
  ret.op = "detectConflicts" =>
    \A i, j \in DOMAIN Routes :
      (/\ ToLowerCase(Routes[i].method) = ToLowerCase(Routes[j].method)
       /\ ToLowerCase(Routes[i].path) = ToLowerCase(Routes[j].path)
       /\ Routes[i].source # Routes[j].source)
      => Cardinality({k \in DOMAIN ret.val :
                        \E a, b \in DOMAIN ret.val[k].sources :
                          /\ ret.val[k].sources[a].source = Routes[i].source
                          /\ ret.val[k].sources[b].source = Routes[j].source}) = 1

\* C8: every stored path is normalized: no trailing slash unless it is the
\* root "/", and never ".".
C8_StoredPathsNormalized ==
  \A i \in DOMAIN Routes :
    \/ Routes[i].path = pRoot
    \/ /\ Routes[i].path # pDot
       /\ Routes[i].path # <<>>
       /\ Routes[i].path[Len(Routes[i].path)] # "/"

\* C9: pushing on, popping from or reversing the array returned by
\* getRoutes() changes neither the stored routes nor what getSorted and
\* detectConflicts compute from them.
C9_GetRoutesIsCopy ==
  [][ret'.op = "callerMutate" =>
       /\ Routes' = Routes
       /\ ArraySort(Routes') = ArraySort(Routes)
       /\ DetectConflicts(Routes') = DetectConflicts(Routes)]_vars

\* the caller's array has been changed and differs from the stored routes
C9_Witness ==
  /\ ret.op = "callerMutate"
  /\ callerRef # NoRef
  /\ Routes # <<>>
  /\ arrays[callerRef] # Routes

Occurrences(s, x) == Cardinality({i \in DOMAIN s : s[i] = x})

IsPermutation(s, t) ==
  /\ Len(s) = Len(t)
  /\ \A i \in DOMAIN t : Occurrences(s, t[i]) = Occurrences(t, t[i])

\* a is not behind b by method, then path, then secure mode
InOrder(a, b) ==
  \/ LocaleCompare(a.method, b.method) < 0
  \/ /\ LocaleCompare(a.method, b.method) = 0
     /\ \/ LocaleCompare(a.path, b.path) < 0
        \/ /\ LocaleCompare(a.path, b.path) = 0
           /\ LocaleCompare(a.secure, b.secure) <= 0

\* C10: getSorted() returns a permutation of the registered routes in
\* ascending order of method, then path, then secure mode, and does not
\* change the stored registration order.
C10_SortedPermutation ==
  [][ret'.op = "getSorted" =>
       /\ IsPermutation(ret'.val, Routes)
       /\ \A i \in 1..Len(ret'.val) - 1 : InOrder(ret'.val[i], ret'.val[i + 1])
       /\ Routes' = Routes]_vars

\* three routes were registered out of order and getSorted reordered them
C10_Witness ==
  /\ ret.op = "getSorted"
  /\ Len(Routes) >= 3
  /\ ret.val # Routes
  /\ \E i, j \in DOMAIN Routes : Routes[i].method # Routes[j].method
  /\ \E i, j \in DOMAIN Routes :
       Routes[i].method = Routes[j].method /\ Routes[i].path # Routes[j].path

(***************************************************************************)
(* Properties of the ServiceRegistry                                       *)
(***************************************************************************)
\* the step on which shutdownAll resolves
ShutdownCompletes == shut.pc = "loop" /\ shut'.pc = "done"

\* C11: when shutdownAll completes on a table that nobody wrote to meanwhile,
\* it has made exactly one teardown attempt per registered service, in table
\* order: shutdown when the instance has it, else close when it has that,
\* else neither (a warning); with both, close is not called.
C11_OneTeardownEach ==
  [][(ShutdownCompletes /\ shut.writes = 0) =>
       /\ Len(shut'.calls) = Len(services)
       /\ \A i \in DOMAIN services :
            /\ shut'.calls[i].name = services[i].name
            /\ services[i].inst.shutdown => shut'.calls[i].method = "shutdown"
            /\ (~services[i].inst.shutdown /\ services[i].inst.close)
                 => shut'.calls[i].method = "close"
            /\ (~services[i].inst.shutdown /\ ~services[i].inst.close)
                 => shut'.calls[i].method = "warn"]_vars

\* shutdownAll completed for a service with both methods and one with none
C11_Witness ==
  /\ shut.pc = "done"
  /\ shut.writes = 0
  /\ \E i, j \in DOMAIN shut.calls :
       /\ shut.calls[i].method = "warn"
       /\ shut.calls[j].method = "shutdown"

\* C12: shutdownAll never rejects, and when it completes on a table nobody
\* wrote to meanwhile every registered service has had its teardown attempt,
\* whichever teardowns threw.
C12_FailuresDoNotBlock ==
  [][/\ shut'.pc # "rejected"
     /\ (ShutdownCompletes /\ shut.writes = 0) =>
          \A i \in DOMAIN services :
            \E k \in DOMAIN shut'.calls : shut'.calls[k].name = services[i].name]_vars

\* the first service's teardown threw and the second one was still torn down
C12_Witness ==
  /\ shut.pc = "done"
  /\ shut.writes = 0
  /\ Len(shut.calls) >= 2
  /\ shut.calls[1].threw
  /\ shut.calls[2].method # "warn"

\* C13: when shutdownAll completes the table is empty: has(name) is false for
\* every name and list() is empty, whatever the teardowns did and whoever
\* wrote to the table meanwhile.
C13_TableEmptyAfterShutdown ==
  [][(shut.pc # "done" /\ shut'.pc = "done") =>
       /\ SvcList(services') = <<>>
       /\ \A name \in ServiceNames : ~SvcHas(services', name)]_vars

\* shutdownAll completed after a failed teardown and a service without one
C13_Witness ==
  /\ shut.pc = "done"
  /\ services = <<>>
  /\ \E i \in DOMAIN shut.calls : shut.calls[i].threw
  /\ \E i \in DOMAIN shut.calls : shut.calls[i].method = "warn"

\* the entries of svcs other than that of name are those of old
OthersKept(old, svcs, name) ==
  \A n \in ServiceNames \ {name} :
    /\ SvcHas(svcs, n) = SvcHas(old, n)
    /\ SvcHas(old, n) => SvcGet(svcs, n) = SvcGet(old, n)

EnabledJobs(cfg) ==
  IF cfg.enabled
  THEN { cfg.jobs[i].name : i \in { j \in DOMAIN cfg.jobs : cfg.jobs[j].enabled } }
  ELSE {}

TaskNames == { n \in JobNames : tasks[n] # 0 }

\* C15: once init(resolver) has completed, the task table holds exactly the
\* jobs with enabled = true of an enabled scheduler configuration (none when
\* the scheduler is disabled), each with its cron task started; at no time is
\* a disabled job handed to the resolver, put into the table or run.
C15_InitLoadsEnabledJobs ==
  /\ initp.pc = "done" =>
       /\ TaskNames = EnabledJobs(config.scheduler)
       /\ \A n \in TaskNames : objs[tasks[n]].started /\ objs[tasks[n]].name = n
  /\ initp.resolved \subseteq EnabledJobs(config.scheduler)
  /\ \A o \in DOMAIN objs : objs[o].name \in EnabledJobs(config.scheduler)
  /\ \A f \in DOMAIN fires :
       fires[f].pc # "idle" => objs[fires[f].obj].name \in EnabledJobs(config.scheduler)

\* init has completed over a configuration with an enabled and a disabled
\* job, and the enabled job is running
C15_Witness ==
  /\ initp.pc = "done"
  /\ config.scheduler.enabled
  /\ \E i \in DOMAIN config.scheduler.jobs : ~config.scheduler.jobs[i].enabled
  /\ TaskNames # {}
  /\ \E f \in DOMAIN fires : fires[f].pc = "run"

\* no SchedulerService was created or registered and no job was scheduled
NoScheduler ==
  /\ ~startup.created
  /\ ~SvcHas(services, "scheduler")
  /\ initp.pc = "idle"
  /\ objs = <<>>
  /\ TaskNames = {}
  /\ \A f \in DOMAIN fires : fires[f].pc = "idle"

\* C16: with the scheduler enabled in standalone mode and cluster.enabled
\* true, the STARTUP subscriber throws and the STARTUP phase fails with its
\* error (it never resolves); no SchedulerService is created or registered
\* and no job is scheduled.
C16_StandaloneInClusterFails ==
  (config.scheduler.enabled /\ config.scheduler.mode = "standalone" /\ config.cluster) =>
    /\ startup.pc \in {"idle", "thrown"}
    /\ emit.st # "resolved"
    /\ (startup.pc = "thrown" /\ emit.st # "await") =>
         (emit.st = "rejected" /\ emit.err = <<SubscriberName, 1>>)
    /\ NoScheduler

C16_Witness ==
  /\ config.scheduler.enabled /\ config.scheduler.mode = "standalone" /\ config.cluster
  /\ startup.pc = "thrown"
  /\ emit.st = "rejected"

\* C17: with the scheduler enabled in attached mode, or with no mode, and
\* cluster.enabled true, the STARTUP subscriber returns without error and the
\* STARTUP phase does not fail; no 'scheduler' service is registered and no job is
\* scheduled or run.
C17_AttachedInClusterDisabled ==
  (config.scheduler.enabled /\ config.scheduler.mode \in {"attached", "undefined"}
     /\ config.cluster) =>
    /\ startup.pc \in {"idle", "returned"}
    /\ emit.hook = STARTUP => emit.st # "rejected"
    /\ NoScheduler

C17_Witness ==
  /\ config.scheduler.enabled /\ config.scheduler.mode \in {"attached", "undefined"}
  /\ config.cluster
  /\ config.scheduler.jobs # <<>>
  /\ startup.pc = "returned"
  /\ emit.st = "resolved"

(***************************************************************************)
(* Properties of the SecurityProvider                                      *)
(***************************************************************************)
HandlerInvoked(r) == \E i \in DOMAIN r.events : r.events[i] = "handler"

\* the request carries `Authorization: Bearer <something>`
SendsBearer(r) == \E h \in r.headers : StartsWith(h, BearerPrefix)

\* the issued tokens a request carries as its bearer token
SentTokens(r) ==
  { t \in IssuedNames :
      \E h \in r.headers : StartsWith(h, BearerPrefix) /\ Len(h) = 8 /\ h[8] = t }

\* a token that this provider has to accept: signed with its key and its
\* algorithm and not expired
Acceptable(p, t) ==
  /\ IssuedTokens[t].secret = p.jwtSecret
  /\ IssuedTokens[t].alg = p.jwtAlgorithm
  /\ ~IssuedTokens[t].expired

\* C18: on a jwt route with JWT enabled, a request without an Authorization
\* header that starts with "Bearer " is answered 401, a request whose bearer
\* token fails verification is answered 403, in both cases without the route
\* handler being invoked; the handler is invoked only for a token that
\* verifies, and then the token's payload is attached to the request.
C18_JwtGate ==
  (req.mode = "jwt" /\ sec.jwtEnabled /\ req.pc # "idle") =>
    /\ ~SendsBearer(req) =>
         (req.pc = "done" /\ req.status = 401 /\ ~HandlerInvoked(req))
    /\ (SendsBearer(req) /\ ~\E t \in SentTokens(req) : Acceptable(sec, t)) =>
         /\ req.pc \in {"verify", "done"}
         /\ req.pc = "done" => req.status = 403
         /\ ~HandlerInvoked(req)
    /\ HandlerInvoked(req) =>
         \E t \in SentTokens(req) :
           /\ Acceptable(sec, t)
           /\ req.auth = {IssuedTokens[t].payload}
           /\ req.user = {IssuedTokens[t].payload}

\* an expired token signed with the right key was answered 403
C18_Witness ==
  /\ req.mode = "jwt" /\ sec.jwtEnabled
  /\ SentTokens(req) = {"expired.jwt"}
  /\ IssuedTokens["expired.jwt"].secret = sec.jwtSecret
  /\ req.pc = "done" /\ req.status = 403

\* the credentials that the Basic Authorization headers looked at stand for:
\* user-id up to the first colon, password after it
SentCredentials == {
    [blob |-> "YWxpY2U6cGFzc3dvcmQxMjM=", username |-> <<"a", "l", "i", "c", "e">>, password |-> <<"p", "a", "s", "s", "w", "o", "r", "d", "1", "2", "3">>],
    [blob |-> "YWxpY2U6d3Jvbmc=", username |-> <<"a", "l", "i", "c", "e">>, password |-> <<"w", "r", "o", "n", "g">>],
    [blob |-> "bWFsbG9yeTpwYXNzd29yZDEyMw==", username |-> <<"m", "a", "l", "l", "o", "r", "y">>, password |-> <<"p", "a", "s", "s", "w", "o", "r", "d", "1", "2", "3">>],
    [blob |-> "Y2Fyb2w6cGFzczp3b3Jk", username |-> <<"c", "a", "r", "o", "l">>, password |-> <<"p", "a", "s", "s", ":", "w", "o", "r", "d">>] }

CredentialsOf(r) ==
  { User(c.username, c.password) :
      c \in { d \in SentCredentials :
                \E h \in r.headers :
                  StartsWith(h, BasicPrefix) /\ \E i \in 7..Len(h) : h[i] = d.blob } }

\* the configured user table has an entry with this username and password
Configured(p, c) ==
  \E users \in p.basicUsers : \E i \in DOMAIN users.entries : users.entries[i] = c

\* C19: on a basic route with Basic auth enabled, a request whose
\* Authorization header is missing or not Basic, or whose username and
\* password are not those of an entry of the user table, is answered 401
\* without the handler being invoked; the handler is invoked only with
\* credentials of an entry (map or list form), and then that username is
\* attached as the identity.
C19_BasicGate ==
  (req.mode = "basic" /\ sec.basicEnabled /\ req.pc # "idle") =>
    /\ (~\E c \in CredentialsOf(req) : Configured(sec, c)) =>
         /\ req.pc = "done" /\ req.status = 401
         /\ ~HandlerInvoked(req)
         /\ req.auth = {}
    /\ HandlerInvoked(req) =>
         \E c \in CredentialsOf(req) :
           /\ Configured(sec, c)
           /\ req.auth = {[username |-> c.username, auth |-> "basic"]}
           /\ req.user = req.auth

\* a user of a table in list form, whose first entry carries another
\* password, reached the handler
C19_Witness ==
  /\ req.mode = "basic" /\ sec.basicEnabled
  /\ \E users \in sec.basicUsers : users.form = "list"
  /\ HandlerInvoked(req)
  /\ req.auth # {}

\* enabled:false in config.auth.jwt / config.auth.basic
JwtOff(p) == \E a \in p.auth : \E j \in a.jwt : FALSE \in j.enabled
BasicOff(p) == \E a \in p.auth : \E b \in a.basic : FALSE \in b.enabled

\* C20: with enabled:false for JWT (for Basic), a request on a jwt (basic)
\* route passes the authentication step whatever its Authorization header:
\* the gate throws neither 401 nor 403 and attaches no identity; the request
\* goes on to the SECURITY phase and the handler, and only the error of a
\* SECURITY subscriber can still refuse it.
C20_KillSwitch ==
  (req.pc # "idle" /\ \/ req.mode = "jwt" /\ JwtOff(sec)
                      \/ req.mode = "basic" /\ BasicOff(sec)) =>
    /\ req.authn = "passed"
    /\ req.auth = {} /\ req.user = {}
    /\ req.pc \in {"security", "done"}
    /\ req.pc = "done" =>
         \/ HandlerInvoked(req) /\ req.status = 200
         \/ \E i \in DOMAIN req.events : req.events[i] = "securityThrew"
    /\ ~sec.hooks => HandlerInvoked(req)

\* a request with a token that does not verify reached the handler of a jwt
\* route while JWT was switched off
C20_Witness ==
  /\ req.mode = "jwt" /\ JwtOff(sec)
  /\ \E h \in req.headers : StartsWith(h, BearerPrefix) /\ SentTokens(req) = {}
  /\ HandlerInvoked(req)

\* the number of times s holds x
CountOf(s, x) == Cardinality({ i \in DOMAIN s : s[i] = x })

\* C21: with a hook manager and a service registry, a request that has
\* passed the authentication step (always, on a mode-none route) has caused
\* exactly one emit of the SECURITY phase, with this request (and the
\* identity the gate attached) in the context, before the handler runs; when
\* a SECURITY subscriber throws, its error is what next(err) receives and
\* the handler is not invoked.
C21_SecurityEmitBeforeHandler ==
  (sec.hooks /\ req.authn \in {"passed", "none"}) =>
    /\ CountOf(req.events, "security") = 1
    /\ req.events[1] = "security"
    /\ req.emits = <<[hook |-> SECURITY,
                      request |-> [mode |-> req.mode, headers |-> req.headers,
                                   auth |-> req.auth]]>>
    /\ CountOf(req.events, "securityThrew") > 0 =>
         /\ ~HandlerInvoked(req)
         /\ req.pc = "done"
         /\ req.err \in {{HttpError(403)}, {PlainError}}
         /\ \A e \in req.err : req.status = ErrorStatus(e)

\* a request of a mode-none route was refused by a SECURITY subscriber
C21_Witness ==
  /\ sec.hooks /\ req.mode = "none" /\ req.authn = "none"
  /\ CountOf(req.events, "securityThrew") = 1
  /\ req.err = {HttpError(403)}
  /\ req.status = 403

(***************************************************************************)
(* Properties of the ControllerLoader                                      *)
(***************************************************************************)
ControllerNames == { loader.dir[i].name : i \in { j \in DOMAIN loader.dir :
                                                    loader.dir[j].ext \in {".js", ".ts"} } }
MountedNames == { loader.mounted[i].controller : i \in DOMAIN loader.mounted }
FailedNames == { loader.failed[i] : i \in DOMAIN loader.failed }

\* the files whose module cannot be loaded whatever happens: no import, no
\* default export, neither init nor handlers, a handler that cannot be wired
AlwaysFailing == {fBroken, fNoDefault, fEmpty, fHalf}

\* C22: once the directory has been read, a controller module that fails
\* (import error, export of neither init nor handlers, error while wiring)
\* is given up and nothing else: load never rejects, and when it has
\* resolved every controller file of the directory is either one that
\* failed, and is not mounted, or is mounted.
C22_FailingModuleSkipped ==
  loader.readdir = "ok" =>
    /\ loader.pc \in {"import", "init", "resolved"}
    /\ loader.err = {}
    /\ MountedNames \cap FailedNames = {}
    /\ \A i \in DOMAIN loader.dir : loader.dir[i] \in AlwaysFailing =>
         loader.dir[i].name \notin MountedNames
    /\ loader.pc = "resolved" => MountedNames \cup FailedNames = ControllerNames

\* load has resolved although a module failed, and a module that comes after
\* the failed one in the directory is mounted
C22_Witness ==
  /\ loader.pc = "resolved"
  /\ \E i, j \in DOMAIN loader.dir :
       /\ i < j
       /\ loader.dir[i].name \in FailedNames
       /\ loader.dir[j].name \in MountedNames

\* C23: when the controller directory cannot be read, load rejects with the
\* error of readdir, no controller is mounted and no route is registered.
C23_UnreadableDirectoryRejects ==
  loader.readdir = "failed" =>
    /\ loader.pc = "rejected"
    /\ loader.err = {"ENOENT"}
    /\ loader.mounted = <<>>
    /\ loader.registered = <<>>
    /\ Routes = <<>>

C23_Witness == loader.readdir = "failed" /\ loader.pc = "rejected"

(***************************************************************************)
(* Properties of the bootstrap's shutdown                                  *)
(***************************************************************************)
\* C24: a call of shutdown invokes shutdownAll only after every SHUTDOWN
\* subscriber has run, and the call whose finally block exits the process
\* has invoked shutdownAll before.
C24_HooksThenShutdownAllBeforeExit ==
  /\ \A i \in DOMAIN proc.calls :
       proc.calls[i].all # "none" => proc.calls[i].idx = Len(listeners[SHUTDOWN])
  /\ \A e \in proc.exit : e.code = 0 => proc.calls[e.by].all # "none"

\* the teardown a call waits for has not settled
TeardownPending(i) ==
  i \in DOMAIN proc.calls /\ proc.calls[i].pc = "services" /\ proc.calls[i].all = "await"

\* C25: a call of shutdown that waits for a teardown which never settles
\* does not wait for ever, the process exits; and a call whose service
\* timeout elapsed has logged the timeout and gone on to close the HTTP
\* server, from where it exits with code 0.
C25_HungTeardownTimesOut ==
  /\ (\E i \in 1..MaxTriggers : TeardownPending(i)) ~> (proc.exit # {})
  /\ [](\A i \in DOMAIN proc.calls : proc.calls[i].timedOut =>
          /\ proc.calls[i].pc \in {"closing", "exited"}
          /\ proc.calls[i].pc = "closing" => proc.server
          /\ proc.calls[i].pc = "exited" => proc.exit = {[code |-> 0, by |-> i]})

\* the process has exited through a call whose teardown never settled: the
\* timeout elapsed, the HTTP server was closed
C25_Witness ==
  \E i \in DOMAIN proc.calls :
    /\ proc.calls[i].timedOut /\ proc.calls[i].all = "await"
    /\ proc.server
    /\ proc.exit = {[code |-> 0, by |-> i]}

\* C26: shutdownAll is invoked at most once, and no service's teardown is
\* called twice, whatever the triggers.
C26_ShutdownAllOnce ==
  /\ proc.shutdownAlls <= 1
  /\ \A n \in ServiceNames : proc.teardowns[n] <= 1

(***************************************************************************)
(* Properties of the trigger callback and of cancel                        *)
(***************************************************************************)
\* C27: when a run ends, by return or by throw, the callback's promise
\* fulfils, the job's running flag is false, the task table is as before,
\* every other job's Scheduled object and callback is untouched, and a
\* trigger fire of a job whose flag is false and which no leader check gates
\* starts a run.
C27_RunEndFreesTheJob ==
  [][/\ \A f \in 1..MaxFires :
          fires[f].pc = "run" /\ fires'[f].pc # "run" =>
            LET o == fires[f].obj
            IN /\ schedRet' \in {SchedRet("runEnd", o, "done"), SchedRet("runEnd", o, "error")}
               /\ ~objs'[o].running
               /\ objs'[o].started = objs[o].started
               /\ tasks' = tasks
               /\ \A x \in DOMAIN objs : x # o => objs'[x] = objs[x]
               /\ \A g \in 1..MaxFires : g # f => fires'[g] = fires[g]
     /\ schedRet'.op = "tick" =>
          LET o == schedRet'.obj
          IN ~objs[o].running /\ ~LeaderGate(o) =>
               /\ schedRet'.out = "run"
               /\ objs'[o].running
               /\ \E f \in 1..MaxFires :
                    fires[f].pc = "idle" /\ fires'[f] = [pc |-> "run", obj |-> o]
    ]_vars

\* a run has just ended with an error: the job is free and still registered,
\* and the run of another job goes on
C27_Witness ==
  /\ schedRet.op = "runEnd" /\ schedRet.out = "error"
  /\ ~objs[schedRet.obj].running
  /\ tasks[objs[schedRet.obj].name] = schedRet.obj
  /\ \E f \in 1..MaxFires : fires[f].pc = "run" /\ fires[f].obj # schedRet.obj

\* C28: a trigger fire that the leader check refuses belongs to a leaderOnly
\* job of a scheduler with a leader check, starts no run and leaves the
\* job's running flag false; a fire of a job that no leader check gates is
\* never refused and, the job being free, runs it.
C28_LeaderCheckGatesTheFire ==
  [][/\ schedRet'.out = "skipNotLeader" =>
          LET o == schedRet'.obj
          IN /\ objs[o].leaderOnly /\ leaderCheck # "none"
             /\ \A f \in 1..MaxFires : fires'[f].pc = "run" => fires[f].pc = "run"
             /\ ~objs'[o].running
     /\ schedRet'.op = "tick" =>
          LET o == schedRet'.obj
          IN ~(objs[o].leaderOnly /\ leaderCheck # "none") =>
               /\ schedRet'.out \in {"run", "skipRunning"}
               /\ ~objs[o].running => schedRet'.out = "run"
    ]_vars

\* C29: cancel(name) of a registered name takes the name out of the table
\* and touches neither a callback in progress nor a running flag; from then
\* on the task of that Scheduled object is stopped for good and a stopped
\* task fires no more; a run leaves the callback only by ending; cancel of
\* an unknown name changes nothing.
C29_CancelStopsFutureFires ==
  [][/\ schedRet' = SchedRet("cancel", schedRet'.obj, "cancelled") =>
          LET o == schedRet'.obj
          IN /\ tasks[objs[o].name] = o
             /\ tasks' = [tasks EXCEPT ![objs[o].name] = 0]
             /\ fires' = fires
             /\ objs'[o].running = objs[o].running
             /\ ~objs'[o].started
             /\ \A x \in DOMAIN objs : x # o => objs'[x] = objs[x]
     /\ schedRet' = SchedRet("cancel", 0, "unknown") =>
          UNCHANGED <<objs, tasks, fires, leaderCheck>>
     /\ \A o \in DOMAIN objs : ~objs[o].started => ~objs'[o].started
     /\ schedRet'.op = "tick" => objs[schedRet'.obj].started
     /\ \A f \in 1..MaxFires :
          fires[f].pc = "run" /\ fires'[f].pc # "run" => schedRet'.op = "runEnd"
    ]_vars

\* a job was cancelled while its run was in flight: the name is gone from
\* the table, the run goes on
C29_Witness ==
  /\ schedRet.op = "cancel" /\ schedRet.out = "cancelled"
  /\ tasks[objs[schedRet.obj].name] = 0
  /\ \E f \in 1..MaxFires : fires[f] = [pc |-> "run", obj |-> schedRet.obj]

(***************************************************************************)
(* Properties of createServer                                              *)
(***************************************************************************)
\* C30: when a STARTUP subscriber is started, every subscriber registered
\* for INITIALIZE has been started, and has returned, before.
C30_InitializeBeforeStartup ==
  \A i \in DOMAIN create.ran :
    create.ran[i][1] = STARTUP =>
      \A pos \in DOMAIN listeners[INITIALIZE] :
        \E j \in 1..(i - 1) : create.ran[j] = <<INITIALIZE, pos>>

\* the phases createServer has emitted so far
EmittedPhases == SelectSeq(create.log, LAMBDA x : x \in LifecycleHook)

\* C31: the phases are emitted in the order STARTUP, PRE_INIT,
\* CUSTOM_MIDDLEWARE, POST_INIT, and when a POST_INIT subscriber has been
\* started the controllers have been loaded.
C31_PostInitAfterControllers ==
  /\ EmittedPhases = SubSeq(<<STARTUP, PRE_INIT, CUSTOM_MIDDLEWARE, POST_INIT>>,
                            1, Len(EmittedPhases))
  /\ (\E i \in DOMAIN create.ran : create.ran[i][1] = POST_INIT) =>
       \E k \in DOMAIN create.log : create.log[k] = "controllers"

(***************************************************************************)
(* Properties of the RouteRegistry: dynamic segments                       *)
(***************************************************************************)
IsDynamicSegment(seg) == seg # <<>> /\ seg[1] = ":"

\* p and q have the same segments but for the names of dynamic segments
SamePattern(p, q) ==
  LET ps == Segments(p, <<>>)
      qs == Segments(q, <<>>)
  IN /\ Len(ps) = Len(qs)
     /\ \A i \in DOMAIN ps :
          ps[i] = qs[i] \/ (IsDynamicSegment(ps[i]) /\ IsDynamicSegment(qs[i]))

\* C34: two registered routes with the same method, from different sources,
\* whose paths differ only in the name of a dynamic segment, are listed
\* together in one message of detectConflicts().
C34_DynamicSegmentsConflict ==
  ret.op = "detectConflicts" =>
    \A i, j \in DOMAIN Routes :
      ( /\ Routes[i].method = Routes[j].method
        /\ Routes[i].source # Routes[j].source
        /\ Routes[i].path # Routes[j].path
        /\ SamePattern(Routes[i].path, Routes[j].path) ) =>
        /\ Cardinality({k \in DOMAIN ret.val :
             \E m \in DOMAIN ret.val[k].sources :
               ret.val[k].sources[m].source = Routes[i].source}) = 1
        /\ \E k \in DOMAIN ret.val :
             \E m, n \in DOMAIN ret.val[k].sources :
               /\ ret.val[k].sources[m].source = Routes[i].source
               /\ ret.val[k].sources[n].source = Routes[j].source

(***************************************************************************)
(* Properties of the ControllerLoader: the routes it records               *)
(***************************************************************************)
\* C39: when load has resolved, every route in the RouteRegistry and every
\* route getRegisteredRoutes() returns belongs to a controller whose router
\* was mounted; a controller that failed has contributed none.
C39_RoutesBelongToMounted ==
  loader.pc = "resolved" =>
    /\ \A i \in DOMAIN Routes : Routes[i].source \in MountedNames
    /\ \A i \in DOMAIN loader.registered :
         loader.registered[i].controller \in MountedNames
    /\ \A i \in DOMAIN Routes : Routes[i].source \notin FailedNames

(***************************************************************************)
(* Properties of the gate: the SECURITY phase                              *)
(***************************************************************************)
\* C40: the SECURITY phase is emitted only for a request whose
\* authentication step is over and has passed: a request answered 401 or
\* 403 by the gate has no SECURITY emit, and while the subscribers run the
\* request carries what the authentication attached.
C40_SecurityOnlyAfterAuth ==
  /\ req.authn \in {"401", "403"} =>
       req.emits = <<>> /\ CountOf(req.events, "security") = 0
  /\ req.emits # <<>> \/ req.pc = "security" =>
       /\ req.authn \in {"none", "passed"}
       /\ req.emits[1].request.auth = req.auth
  /\ req.pc = "verify" => req.emits = <<>>

\* a provider with hooks has answered 403 to a bearer token that fails the
\* verification, and no subscriber was run
C40_Witness ==
  /\ sec.hooks
  /\ req.pc = "done" /\ req.authn = "403" /\ req.status = 403
  /\ req.emits = <<>>

(***************************************************************************)
(* Properties of the scheduler's subscribers                               *)
(***************************************************************************)
\* C35: while init awaits the resolver of the STARTUP subscriber for an
\* enabled job whose module reference is not the key of a registered
\* service, the resolver is not bound to fail: it goes on to import the
\* module, so its promise can fulfil and the job be registered.
C35_ModulePathIsImported ==
  ( /\ initp.by = "startup"
    /\ initp.pc = "await"
    /\ ~SvcHas(services, Head(initp.queue).module) ) =>
    initp.may \in {"return", "any"}

(***************************************************************************)
(* Properties of the one-shot timers and of cancelAll                      *)
(***************************************************************************)
\* the one-shot objects whose timer is pending
PendingTimers == {o \in DOMAIN objs : objs[o].kind = "timeout" /\ objs[o].started}

\* C38: every one-shot timer that is still pending is the entry the table
\* holds under its name, so cancel(name) and cancelAll() reach it.
C38_PendingTimerIsInTable ==
  \A o \in PendingTimers : tasks[objs[o].name] = o

\* C32: when cancelAll() has returned the table is empty and no cron task
\* and no one-shot timer of the service is armed any more, so none of them
\* can start a run.
C32_CancelAllStopsEverything ==
  schedRet.op = "cancelAll" =>
    /\ \A n \in JobNames : tasks[n] = 0
    /\ \A o \in DOMAIN objs : ~objs[o].started

\* C33: fn of a one-shot task is called at most once; cancel(name) and
\* cancelAll() leave no one-shot timer of that name pending and take the name
\* out of the table, and a timer stopped before it fired never calls fn; the
\* end of fn, returned or thrown, takes the name out of the table and leaves
\* the callback; scheduleTimeout throws exactly for a name the table has.
C33_OneShotContract ==
  [][/\ \A o \in DOMAIN objs' : objs'[o].runs <= 1
     /\ schedRet'.op = "cancelAll" =>
          /\ PendingTimers' = {}
          /\ \A o \in PendingTimers : tasks'[objs[o].name] = 0
     /\ schedRet' = SchedRet("cancel", schedRet'.obj, "cancelled") =>
          /\ schedRet'.obj \notin PendingTimers'
          /\ tasks'[objs[schedRet'.obj].name] = 0
     /\ \A o \in DOMAIN objs :
          ~objs[o].started /\ objs[o].runs = 0 => objs'[o].runs = 0
     /\ schedRet'.op = "timerEnd" =>
          /\ tasks'[objs[schedRet'.obj].name] = 0
          /\ \A f \in 1..MaxFires : fires'[f].obj # schedRet'.obj
     /\ schedRet' = SchedRet("scheduleTimeout", 0, "throws") =>
          UNCHANGED <<objs, tasks, fires>>
     /\ schedRet'.op = "scheduleTimeout" /\ schedRet'.out = "ok" =>
          LET o == schedRet'.obj
          IN tasks[objs'[o].name] = 0 /\ tasks'[objs'[o].name] = o
    ]_vars

\* C36: the scheduler's SHUTDOWN subscriber never throws, so the SHUTDOWN
\* phase it takes part in never rejects, whether or not a service named
\* 'scheduler' was registered during STARTUP.
C36_ShutdownSubscriberNeverThrows ==
  /\ startup.down # "thrown"
  /\ emit.hook = SHUTDOWN => emit.st # "rejected"

\* C37: when init has rejected, none of the cron tasks it registered is left
\* in the table or started, so no job fires after a failed startup.
C37_InitAllOrNothing ==
  initp.pc = "rejected" =>
    /\ \A n \in JobNames : tasks[n] = 0
    /\ \A o \in DOMAIN objs : ~objs[o].started

====
